---------------------------- MODULE Spec2Model ----------------------------
(***************************************************************************)
(* Racktables -> NetBox migration: a model of the migration stages.        *)
(*                                                                         *)
(* The target system (NetBox) is reached through a thin client; a create   *)
(* call either stores the resource and returns it with a fresh id, or      *)
(* raises.  The model draws that outcome (api_ok) for every create call.   *)
(* Source tables (Racktables) are read-only inputs drawn from small sets.  *)
(*                                                                         *)
(* One specification per group of stages:                                  *)
(*   SpecDevices  create_device_at_location (racked devices)               *)
(*   SpecVlans    create_vlans                                             *)
(*   SpecIps      create_ip_networks, create_ip_allocated,                 *)
(*                create_ip_not_allocated, for IP version 4 then 6         *)
(*   SpecGaps     create_available_subnets                                 *)
(*   Spec         run_base_migration, stage by stage and run after run     *)
(*   SpecExtended run_extended_migration, stage by stage                   *)
(*   SpecMain     main: setup, site lookup, the two migrations, exit       *)
(*   SpecInterfaces  create_interfaces, port by port                       *)
(*   SpecResume   run_base_migration from the Cables stage on, against a   *)
(*                target that holds the interfaces                         *)
(*   SpecChildren create_non_racked_devices, object by object              *)
(*   SpecRanges   create_available_subnets then create_ip_ranges, run      *)
(*                after run                                                *)
(*   SpecRacks    create_rows_and_racks then create_racked_devices, rack   *)
(*                by rack                                                  *)
(*   SpecVms      create_vms, cluster by cluster and VM by VM              *)
(*   SpecStatus   determine_prefix_status on the rows of the network       *)
(*                tables                                                   *)
(*   SpecFlags    run_base_migration, call by call, under every choice of  *)
(*                the stage flags                                          *)
(***************************************************************************)
EXTENDS Integers, Sequences, FiniteSets, TLC

VARIABLES
    \* ---- devices.py module globals and the target's devices
    global_devices,     \* list of devices created in this run (devices.py:19)
    global_names,       \* set of device names created in this run (devices.py:18)
    nb_devices,         \* devices stored in the target
    dev_calls,          \* history: one record per create_device_at_location call
    \* ---- create_vlans
    vlan_IP,            \* the loop variable IP of create_vlans: "4", "6", "done"
    vlans_for_group,    \* group name -> names created in the group (vlans.py:75)
    network_id_group_name_id, \* net_id -> (group, name, vlan id) (vlans.py:72)
    nb_vlans,           \* VLANs stored in the target
    vlan_rows,          \* number of VLANIPv4/VLANIPv6 rows processed
    vlan_last,          \* the last row processed and what was done for it
    \* ---- create_ip_networks / create_ip_allocated / create_ip_not_allocated
    ip_IP,              \* the IP version of the running stage: "4" or "6"
    ip_stage,           \* "networks", "allocated", "not_allocated", "done"
    existing_prefixes,  \* snapshot taken by create_ip_networks (ips.py:40)
    existing_ips,       \* snapshot taken by the address stages (ips.py:131,391)
    nb_prefixes,        \* prefixes stored in the target
    nb_ips,             \* IP addresses stored in the target
    nb_interfaces,      \* interfaces stored in the target
    host_routes,        \* history: <<IP, ip>> of the network rows skipped as host routes
    ip_rows,            \* number of source rows processed by the IP stages
    ip_last,            \* the last row processed and what was done for it
    \* ---- create_available_subnets
    gap_pc,             \* "start", "walk", "done"
    gap_existing,       \* existing_prefixes (available_subnets.py:151), parsed
    network_groups,     \* parent -> list of its children (available_subnets.py:154)
    gap_parents,        \* the parents still to be processed, in dict order
    gap_i,              \* index of the next child of the parent being processed
    prev_end,           \* available_subnets.py:235
    gap_calls,          \* history: the create_ip_prefix calls issued
    \* ---- run_base_migration
    pl_run,             \* number of the run in progress, 0 when there is none
    pl_pc,              \* the stage that is up, "done" or "aborted"
    pl_IP,              \* the loop variable IP of migrate.py:457
    pl_faults,          \* number of create calls that failed so far
    pl_calls,           \* history: the create calls issued, run by run
    STORE_DATA,         \* config.py:42
    files,              \* file name -> [exists, data]: the pickle files
    netbox,             \* the target: one set of resources per kind
    global_device_types,        \* devices.py:23
    global_physical_object_ids, \* devices.py:24
    \* ---- run_extended_migration
    ext_pc,             \* the extended stage that is up, "done" or "raised"
    tables,             \* the tables the source database has
    columns,            \* table -> its columns, in SHOW COLUMNS order
    connector_name_col, \* patch_cables.py:69
    type_name_col,      \* patch_cables.py:70
    ext_log,            \* history: <<stage, outcome>> of the extended stages run
    \* ---- main
    main_pc,            \* "setup", "associations", "base", "extended", "exit", "exited"
    args,               \* the parsed command line (migrate.py:46-55)
    setup_ok,           \* whether the configuration and connection checks of main pass
    main_sites,         \* names of the sites stored in the target
    main_tags,          \* names of the tags stored in the target
    site_creatable,     \* whether the target accepts create_site
    TARGET_SITE,        \* config.py:34, set by main (migrate.py:539-541)
    NETBOX_SITE_ID,     \* site_tenant.py:79-80, 0 while unset
    main_calls,         \* history: the create calls issued by the stages
    success,            \* migrate.py:598
    exit_code,          \* migrate.py:617, -1 while the process runs
    \* ---- create_interfaces, port by port
    iface_pc,           \* "walk" or "done"
    iface_devices,      \* the device tuples still to be processed (interfaces.py:113-114)
    iface_tracked,      \* the device tuples create_interfaces was entered with
    port_index,         \* index of the next port of the first device of iface_devices
    iface_connection_ids, \* connection_ids (interfaces.py:109): port id -> interface id, 0 when absent
    iface_target,       \* the devices and interfaces stored in the target
    iface_known,        \* interfaces.py:84-98: the interfaces known per device
    iface_faults,       \* number of create_interface calls that failed so far
    \* ---- create_non_racked_devices, object by object
    child_pc,           \* "walk" or "done"
    child_source,       \* ids of the rows of table Object
    child_types,        \* the object types still to be processed (devices.py:331)
    child_pass,         \* 1 for the call of devices.py:344, 2 for that of devices.py:348
    child_data,         \* the tuples of the running call still to be processed
    not_created_parents, \* devices.py:368
    child_existing_names, \* existing_device_names (devices.py:371)
    child_devices,      \* names of the devices stored in the target
    child_bays,         \* the device bays stored in the target, as <<parent, child>>
    child_faults,       \* number of create_device calls that failed so far
    child_log,          \* history: one record per object processed
    \* ---- gap analysis, run after run
    rg_pc,              \* "subnets", "ranges" or "done"
    rg_run,             \* number of the run in progress, 0 when there is none
    rg_prefixes,        \* the prefixes stored in the target
    rg_addresses,       \* the IP addresses stored in the target
    rg_ranges,          \* the IP ranges stored in the target
    rg_calls,           \* history: the create calls issued, run by run
    rg_faults,          \* number of create calls that failed so far
    \* ---- racks, then the devices in them
    rk_pc,              \* "racks", "devices" or "done"
    rk_next,            \* index of the next source rack, then id of the next target rack
    rk_rows,            \* getRacksAtRow: the racks of the source row
    rk_racks,           \* the racks stored in the target
    rk_devices,         \* the devices stored in the target
    rk_faults,          \* number of create calls that failed so far
    \* ---- create_vms
    vm_pc,              \* "mounted", "unmounted" or "done"
    vm_parent,          \* table EntityLink: VM id -> id of the object that contains it, 0 for none
    vm_cluster,         \* index of the next source cluster (vms.py:96)
    vm_todo,            \* the Object rows still to be processed by the running loop
    vm_cluster_types,   \* names of the cluster types stored in the target
    vm_cluster_names,   \* names of the clusters stored in the target
    vm_machines,        \* the virtual machines stored in the target
    vm_faults,          \* number of create calls that failed so far
    \* ---- prefix status: determine_prefix_status
    st_pc,              \* "call" or "returned"
    st_name,            \* prefix_name; "" also stands for None
    st_comment,         \* comment; "" also stands for None
    st_valid,           \* valid_statuses
    st_status,          \* the status returned, "" before the return
    \* ---- run_base_migration under the stage flags of config.py
    fl_flags,           \* the CREATE_* flags that are True
    fl_pc,              \* "between" calls, "in" a call, "done" or "raised"
    fl_next,            \* index of the next call of run_base_migration
    fl_site,            \* create_sites_and_racks: index of the site that is up
    fl_trace            \* history: start and end of every call

devVars == <<global_devices, global_names, nb_devices, dev_calls>>

vlanVars == <<vlan_IP, vlans_for_group, network_id_group_name_id, nb_vlans,
              vlan_rows, vlan_last>>

ipVars == <<ip_IP, ip_stage, existing_prefixes, existing_ips, nb_prefixes,
            nb_ips, nb_interfaces, host_routes, ip_rows, ip_last>>

gapVars == <<gap_pc, gap_existing, network_groups, gap_parents, gap_i,
             prev_end, gap_calls>>

plVars == <<pl_run, pl_pc, pl_IP, pl_faults, pl_calls, STORE_DATA, files, netbox,
            global_device_types, global_physical_object_ids>>

extVars == <<ext_pc, tables, columns, connector_name_col, type_name_col, ext_log>>

mainVars == <<main_pc, args, setup_ok, main_sites, main_tags, site_creatable,
              TARGET_SITE, NETBOX_SITE_ID, main_calls, success, exit_code>>

ifaceVars == <<iface_pc, iface_devices, iface_tracked, port_index,
               iface_connection_ids, iface_target, iface_known, iface_faults>>

childVars == <<child_pc, child_source, child_types, child_pass, child_data,
               not_created_parents, child_existing_names, child_devices,
               child_bays, child_faults, child_log>>

rangeVars == <<rg_pc, rg_run, rg_prefixes, rg_addresses, rg_ranges, rg_calls, rg_faults>>

rackVars == <<rk_pc, rk_next, rk_rows, rk_racks, rk_devices, rk_faults>>

vmVars == <<vm_pc, vm_parent, vm_cluster, vm_todo, vm_cluster_types, vm_cluster_names, vm_machines, vm_faults>>

statusVars == <<st_pc, st_name, st_comment, st_valid, st_status>>

flagVars == <<fl_flags, fl_pc, fl_next, fl_site, fl_trace>>

vars == <<devVars, vlanVars, ipVars, gapVars, plVars, extVars, mainVars, ifaceVars, childVars, rangeVars, rackVars, vmVars, statusVars, flagVars>>

\* What the stages of one group leave alone.
notDevVars == <<vlanVars, ipVars, gapVars, plVars, extVars, mainVars, ifaceVars, childVars, rangeVars, rackVars, vmVars, statusVars, flagVars>>
notVlanVars == <<devVars, ipVars, gapVars, plVars, extVars, mainVars, ifaceVars, childVars, rangeVars, rackVars, vmVars, statusVars, flagVars>>
notIpVars == <<devVars, vlanVars, gapVars, plVars, extVars, mainVars, ifaceVars, childVars, rangeVars, rackVars, vmVars, statusVars, flagVars>>
notGapVars == <<devVars, vlanVars, ipVars, plVars, extVars, mainVars, ifaceVars, childVars, rangeVars, rackVars, vmVars, statusVars, flagVars>>
notPlVars == <<vlanVars, ipVars, gapVars, extVars, mainVars, ifaceVars, childVars, rangeVars, rackVars, vmVars, statusVars, flagVars>>
notExtVars == <<devVars, vlanVars, ipVars, gapVars, plVars, mainVars, ifaceVars, childVars, rangeVars, rackVars, vmVars, statusVars, flagVars>>
notMainVars == <<devVars, vlanVars, ipVars, gapVars, plVars, extVars, ifaceVars, childVars, rangeVars, rackVars, vmVars, statusVars, flagVars>>
notIfaceVars == <<devVars, vlanVars, ipVars, gapVars, plVars, extVars, mainVars, childVars, rangeVars, rackVars, vmVars, statusVars, flagVars>>
notChildVars == <<devVars, vlanVars, ipVars, gapVars, plVars, extVars, mainVars, ifaceVars, rangeVars, rackVars, vmVars, statusVars, flagVars>>
notRangeVars == <<devVars, vlanVars, ipVars, gapVars, plVars, extVars, mainVars, ifaceVars, childVars, rackVars, vmVars, statusVars, flagVars>>
notRackVars == <<devVars, vlanVars, ipVars, gapVars, plVars, extVars, mainVars, ifaceVars, childVars, rangeVars, vmVars, statusVars, flagVars>>
notVmVars == <<devVars, vlanVars, ipVars, gapVars, plVars, extVars, mainVars, ifaceVars, childVars, rangeVars, rackVars, statusVars, flagVars>>
notStatusVars == <<devVars, vlanVars, ipVars, gapVars, plVars, extVars, mainVars, ifaceVars, childVars, rangeVars, rackVars, vmVars, flagVars>>
notFlagVars == <<devVars, vlanVars, ipVars, gapVars, plVars, extVars, mainVars, ifaceVars, childVars, rangeVars, rackVars, vmVars, statusVars>>

(***************************************************************************)
(* Bounds                                                                  *)
(***************************************************************************)
MaxDeviceCalls == 3
MaxVlanRows == 3
MaxIpRows == 3
MaxFailedCreates == 1
MaxRuns == 2
MaxColumns == 2

(***************************************************************************)
(* Racked devices: create_device_at_location                               *)
(***************************************************************************)

\* Names the source objects of a rack may carry.  "sw1.1" is also the first
\* suffixed form of "sw1".
DeviceNames == {"sw1", "sw1.1"}

\* (face, start_height, device_role, manufacturer, device_type_model,
\*  site_name, rack_name) tuples the callers compute for source objects.
Locations ==
    { [face |-> "front", start_height |-> 10, device_role |-> "Network Switch",
       manufacturer |-> "Cisco", device_type_model |-> "C2960-1U",
       site_name |-> "DC1", rack_name |-> "DC1.A.R1"],
      [face |-> "rear", start_height |-> 10, device_role |-> "Network Switch",
       manufacturer |-> "Cisco", device_type_model |-> "C2960-1U",
       site_name |-> "DC1", rack_name |-> "DC1.A.R1"],
      [face |-> "front", start_height |-> 10, device_role |-> "Network Switch",
       manufacturer |-> "Cisco", device_type_model |-> "C2960-1U",
       site_name |-> "DC1", rack_name |-> "DC1.A.R2"] }

\* The device the target returns from create_device: the request's fields in
\* the nested shape the code reads back (device['face']['value'], ...).
NewDevice(id, name, loc) ==
    [id |-> id, name |-> name, face |-> [value |-> loc.face],
     position |-> loc.start_height,
     device_role |-> [name |-> loc.device_role],
     device_type |-> [manufacturer |-> [name |-> loc.manufacturer],
                      model |-> loc.device_type_model],
     site |-> [name |-> loc.site_name], rack |-> [name |-> loc.rack_name]]

\* A location test that compares the site against the device's rack name.
SameLocationWrongField(device, loc) ==
    /\ loc.face = device.face.value
    /\ loc.start_height = device.position
    /\ loc.device_role = device.device_role.name
    /\ loc.manufacturer = device.device_type.manufacturer.name
    /\ loc.device_type_model = device.device_type.model
    /\ loc.site_name = device.rack.name
    /\ loc.rack_name = device.rack.name

\* devices.py:88-92, the condition of the lookup loop; loc carries the
\* arguments face, start_height, device_role, manufacturer,
\* device_type_model, site_name, rack_name.
SameLocation(device, loc) ==
    /\ loc.face = device.face.value
    /\ loc.start_height = device.position
    /\ loc.device_role = device.device_role.name
    /\ loc.manufacturer = device.device_type.manufacturer.name
    /\ loc.device_type_model = device.device_type.model
    /\ loc.site_name = device.site.name
    /\ loc.rack_name = device.rack.name

\* devices.py:87-95: index of the first device of `devices` at the location,
\* 0 when there is none (name_at_location stays None).
DeviceAtLocation(devices, loc) ==
    LET hits == { i \in DOMAIN devices : SameLocation(devices[i], loc) }
    IN IF hits = {} THEN 0
       ELSE CHOOSE i \in hits : \A k \in hits : i <= k

\* device_name + ".{}".format(name_counter)
CounterName(device_name, name_counter) ==
    device_name \o "." \o ToString(name_counter)

\* The counter loop of devices.py:102-109: the first counter whose name is free.
RECURSIVE FirstFreeCounter(_, _, _)
FirstFreeCounter(device_name, names, name_counter) ==
    IF CounterName(device_name, name_counter) \notin names
    THEN name_counter
    ELSE FirstFreeCounter(device_name, names, name_counter + 1)

\* A name choice without the loop: always the suffix ".1".
NameAtLocationNoLoop(device_name, names) ==
    IF device_name \in names THEN CounterName(device_name, 1) ELSE device_name

\* devices.py:99-109.
NameAtLocation(device_name, names) ==
    IF device_name \in names
    THEN CounterName(device_name, FirstFreeCounter(device_name, names, 1))
    ELSE device_name

NextDeviceId == Cardinality(nb_devices) + 1

\* devices.py:60-156.  Returns (name_at_location, id_at_location); the history
\* records the call, the state it ran in and what it returned.
create_device_at_location(device_name, loc, api_ok) ==
    LET at == DeviceAtLocation(global_devices, loc)
        name_at_location == NameAtLocation(device_name, global_names)
        device == NewDevice(NextDeviceId, name_at_location, loc)
        call == [device_name |-> device_name, loc |-> loc,
                 names_before |-> global_names,
                 ndevices_before |-> Len(global_devices)]
    IN IF at # 0
       THEN \* "already exists at location": nothing is created
            /\ dev_calls' = Append(dev_calls,
                   call @@ [create_name |-> "", created |-> FALSE,
                            ret_name |-> global_devices[at].name,
                            ret_id |-> global_devices[at].id])
            /\ UNCHANGED <<global_devices, global_names, nb_devices>>
       ELSE IF api_ok
       THEN /\ nb_devices' = nb_devices \cup {device}
            /\ global_names' = global_names \cup {name_at_location}
            /\ global_devices' = Append(global_devices, device)
            /\ dev_calls' = Append(dev_calls,
                   call @@ [create_name |-> name_at_location, created |-> TRUE,
                            ret_name |-> name_at_location,
                            ret_id |-> device.id])
       ELSE \* create_device raised: logged, (None, None) returned
            /\ dev_calls' = Append(dev_calls,
                   call @@ [create_name |-> name_at_location, created |-> FALSE,
                            ret_name |-> "", ret_id |-> 0])
            /\ UNCHANGED <<global_devices, global_names, nb_devices>>

\* One object of create_devices_in_rack's loop reaching its
\* create_device_at_location call (devices.py:307-310).
DeviceStep ==
    /\ Len(dev_calls) < MaxDeviceCalls
    /\ \E device_name \in DeviceNames, loc \in Locations, api_ok \in BOOLEAN :
           create_device_at_location(device_name, loc, api_ok)
    /\ UNCHANGED notDevVars

DevicesStart ==
    /\ global_devices = <<>>
    /\ global_names = {}
    /\ nb_devices = {}
    /\ dev_calls = <<>>

(***************************************************************************)
(* VLANs: create_vlans                                                     *)
(***************************************************************************)

\* Table VLANDomain: id -> description (the VLAN group name).
VLANDomain == [domain_id \in {1, 2} |-> IF domain_id = 1 THEN "office" ELSE "lab"]

VlanGroupNames == {VLANDomain[d] : d \in DOMAIN VLANDomain}

\* Table VLANDescription: (domain_id, vlan_id) -> vlan_descr.  Three VLANs of
\* domain 1 are called "X", one is called "X-1", one VLAN has no description.
VLANDescription ==
    [k \in {<<1, 10>>, <<1, 20>>, <<1, 30>>, <<1, 40>>, <<2, 10>>, <<2, 20>>} |->
        CASE k = <<1, 40>> -> "X-1"
          [] k = <<2, 20>> -> ""
          [] OTHER -> "X"]

\* ipv4net_id / ipv6net_id values of the VLANIPv4 / VLANIPv6 rows.
VlanNetIds == {1, 2}

\* f"{vlan_name}-{counter}"
VlanCounterName(vlan_name, counter) == vlan_name \o "-" \o ToString(counter)

\* vlans.py:109-114: the first counter whose name is free in the group.
RECURSIVE VlanFirstFreeCounter(_, _, _)
VlanFirstFreeCounter(vlan_name, names, counter) ==
    IF VlanCounterName(vlan_name, counter) \notin names
    THEN counter
    ELSE VlanFirstFreeCounter(vlan_name, names, counter + 1)

\* A name choice without the loop: always the suffix "-1".
UniqueVlanNameNoLoop(vlan_name, names) ==
    IF vlan_name \in names THEN VlanCounterName(vlan_name, 1) ELSE vlan_name

\* vlans.py:106-114.
UniqueVlanName(vlan_name, names) ==
    IF vlan_name \in names
    THEN VlanCounterName(vlan_name, VlanFirstFreeCounter(vlan_name, names, 1))
    ELSE vlan_name

NextVlanId == Cardinality(nb_vlans) + 1

\* Names of the target's VLANs of a group.
NbVlanNames(group) == {v.name : v \in {w \in nb_vlans : w.group = group}}

\* vlans.py:84-132, the body of the row loop for one row of VLANIPv{IP}.
create_vlans_row(domain_id, vlan_id, net_id, api_ok) ==
    LET vlan_name == VLANDescription[<<domain_id, vlan_id>>]
        vlan_group_name == VLANDomain[domain_id]
        name == UniqueVlanName(vlan_name, vlans_for_group[vlan_group_name])
        created_vlan == [id |-> NextVlanId, group |-> vlan_group_name,
                         vid |-> vlan_id, name |-> name]
        row == [IP |-> vlan_IP, domain_id |-> domain_id, vlan_id |-> vlan_id,
                net_id |-> net_id, vlan_name |-> vlan_name,
                group |-> vlan_group_name,
                nb_names_before |-> NbVlanNames(vlan_group_name)]
    IN /\ vlan_rows' = vlan_rows + 1
       /\ UNCHANGED vlan_IP
       /\ IF vlan_name = ""
          THEN \* no name available: the row is skipped
               /\ vlan_last' = row @@ [create_name |-> "", created |-> FALSE]
               /\ UNCHANGED <<vlans_for_group, network_id_group_name_id, nb_vlans>>
          ELSE IF api_ok
          THEN /\ nb_vlans' = nb_vlans \cup {created_vlan}
               /\ network_id_group_name_id' =
                      [network_id_group_name_id EXCEPT
                          ![net_id] = <<vlan_group_name, name, created_vlan.id>>]
               /\ vlans_for_group' =
                      [vlans_for_group EXCEPT ![vlan_group_name] = @ \cup {name}]
               /\ vlan_last' = row @@ [create_name |-> name, created |-> TRUE]
          ELSE \* create_vlan raised: printed, nothing recorded
               /\ vlan_last' = row @@ [create_name |-> name, created |-> FALSE]
               /\ UNCHANGED <<vlans_for_group, network_id_group_name_id, nb_vlans>>

\* One iteration of the row loop (vlans.py:84).
VlanRow ==
    /\ vlan_IP \in {"4", "6"}
    /\ vlan_rows < MaxVlanRows
    /\ \E k \in DOMAIN VLANDescription, net_id \in VlanNetIds, api_ok \in BOOLEAN :
           create_vlans_row(k[1], k[2], net_id, api_ok)
    /\ UNCHANGED notVlanVars

\* The rows of VLANIPv4 are exhausted: the outer loop goes on with "6"
\* (vlans.py:78).
VlanNextTable ==
    /\ vlan_IP = "4"
    /\ vlan_IP' = "6"
    /\ UNCHANGED <<vlans_for_group, network_id_group_name_id, nb_vlans,
                   vlan_rows, vlan_last>>
    /\ UNCHANGED notVlanVars

\* The rows of VLANIPv6 are exhausted: create_vlans returns (vlans.py:134-137).
VlanReturn ==
    /\ vlan_IP = "6"
    /\ vlan_IP' = "done"
    /\ UNCHANGED <<vlans_for_group, network_id_group_name_id, nb_vlans,
                   vlan_rows, vlan_last>>
    /\ UNCHANGED notVlanVars

NoVlanRow ==
    [IP |-> "", domain_id |-> 0, vlan_id |-> 0, net_id |-> 0, vlan_name |-> "",
     group |-> "", nb_names_before |-> {}, create_name |-> "", created |-> FALSE]

\* vlans.py:63-75: the state create_vlans starts its loops in.
VlansStart ==
    /\ vlan_IP = "4"
    /\ vlans_for_group = [g \in VlanGroupNames |-> {}]
    /\ network_id_group_name_id = [n \in VlanNetIds |-> <<>>]
    /\ nb_vlans = {}
    /\ vlan_rows = 0
    /\ vlan_last = NoVlanRow

(***************************************************************************)
(* IP stages: create_ip_networks, create_ip_allocated,                     *)
(* create_ip_not_allocated                                                 *)
(***************************************************************************)

StartsWith(s, prefix) ==
    Len(s) >= Len(prefix) /\ SubSeq(s, 1, Len(prefix)) = prefix

\* str(ipaddress.ip_address(ip)) for an IPv4 address given as an integer.
IPv4String(ip) ==
    ToString(ip \div 16777216) \o "." \o ToString((ip \div 65536) % 256) \o "."
        \o ToString((ip \div 256) % 256) \o "." \o ToString(ip % 256)

HexDigit(d) == SubSeq("0123456789abcdef", d + 1, d + 1)

RECURSIVE Hex(_)
Hex(n) == IF n = 0 THEN "" ELSE Hex(n \div 16) \o HexDigit(n % 16)

\* str(ipaddress.ip_address(ip)) for the IPv6 addresses 2001:db8::/100; ip is
\* the low 28 bits of the address.  The run of zero groups is compressed.
IPv6String(ip) ==
    IF ip < 65536
    THEN "2001:db8::" \o Hex(ip)
    ELSE "2001:db8::" \o Hex(ip \div 65536) \o ":"
            \o (IF ip % 65536 = 0 THEN "0" ELSE Hex(ip % 65536))

IpString(IP, ip) == IF IP = "4" THEN IPv4String(ip) ELSE IPv6String(ip)

\* The target stores an address given without a mask as a host address.
HostMask(IP) == IF IP = "4" THEN "/32" ELSE "/128"

\* Rows of IPv4Network / IPv6Network: ip and mask.
NetworkRows(IP) ==
    IF IP = "4"
    THEN {[ip |-> 167772160, mask |-> 24], [ip |-> 167772165, mask |-> 32]}
    ELSE {[ip |-> 0, mask |-> 32], [ip |-> 5, mask |-> 128]}

\* Values of the ip column of IPv4Address/IPv6Address: 10.0.0.5 and 10.0.0.50,
\* 2001:db8::5.
AddressIps(IP) == IF IP = "4" THEN {167772165, 167772210} ELSE {5}

\* Rows of Object joined by the allocation query (ips.py:143-147).  sw1 is a
\* network switch and sw2 a server, both exist as target devices; "ghost" has
\* no target device; the last object has no name.
Objects ==
    {[object_id |-> 1, name |-> "sw1", objtype_id |-> 8],
     [object_id |-> 2, name |-> "sw2", objtype_id |-> 4],
     [object_id |-> 3, name |-> "ghost", objtype_id |-> 4],
     [object_id |-> 4, name |-> "", objtype_id |-> 4]}

\* Devices of the target when the IP stages start: name -> id.
TargetDeviceId(device_name) ==
    CASE device_name = "sw1" -> 1
      [] device_name = "sw2" -> 2
      [] OTHER -> 0

\* Rows of IPv4Allocation / IPv6Allocation: object_id, ip, name, type.  Rows
\* are drawn from this pool; name "" is a missing interface name.
Allocations(IP) ==
    IF IP = "4"
    THEN {[object_id |-> 1, ip |-> 167772165, name |-> "eth0", type |-> "regular"],
          [object_id |-> 2, ip |-> 167772165, name |-> "eth0", type |-> "regular"],
          [object_id |-> 1, ip |-> 167772165, name |-> "eth0", type |-> "shared"],
          [object_id |-> 2, ip |-> 167772165, name |-> "", type |-> "shared"],
          [object_id |-> 3, ip |-> 167772210, name |-> "eth0", type |-> "shared"],
          [object_id |-> 4, ip |-> 167772210, name |-> "eth0", type |-> "regular"],
          [object_id |-> 2, ip |-> 167772210, name |-> "", type |-> "regular"]}
    ELSE {[object_id |-> 1, ip |-> 5, name |-> "eth0", type |-> "shared"],
          [object_id |-> 2, ip |-> 5, name |-> "eth0", type |-> "regular"]}

\* The Object row an allocation is joined with (ips.py:146).
ObjectOf(object_id) == CHOOSE obj \in Objects : obj.object_id = object_id

\* The values random.randint may return (ips.py:254).
RandomInts == {7, 8}

\* db.py:198-217 with the entry "eth" -> "Ethernet" of INTERFACE_NAME_MAPPINGS:
\* the prefix is replaced when a digit, "-" or " " follows on a router or
\* a network switch.
change_interface_name(interface_name, objtype_id) ==
    IF /\ objtype_id \in {7, 8}
       /\ StartsWith(interface_name, "eth")
       /\ Len(interface_name) > 3
       /\ \E i \in 1..12 : SubSeq("0123456789- ", i, i) = SubSeq(interface_name, 4, 4)
    THEN "Ethernet" \o SubSeq(interface_name, 4, Len(interface_name))
    ELSE interface_name

\* ips.py:237-241 and 411-415.
ExistingMatch(existing, string_ip) ==
    \E existing_ip \in existing :
        StartsWith(existing_ip, string_ip \o "/") \/ existing_ip = string_ip

\* ips.py:57.
HostRouteV4Only(IP, mask) == IP = "4" /\ mask = 32

HostRoute(IP, mask) == (IP = "4" /\ mask = 32) \/ (IP = "6" /\ mask = 128)

\* A duplicate skip that does not look at the allocation type.
SkipAllocationAnyType(existing_match, ip_type) ==
    existing_match /\ ip_type \in {"regular", "shared"}

\* ips.py:243.
SkipAllocation(existing_match, ip_type) == existing_match /\ ip_type # "shared"

NextIpId == Cardinality(nb_ips) + 1

NextInterfaceId == Cardinality(nb_interfaces) + 1

\* The part of a stored address before the mask.
RECURSIVE AddressPart(_)
AddressPart(address) ==
    IF address = "" \/ Head(address) = "/"
    THEN ""
    ELSE SubSeq(address, 1, 1) \o AddressPart(SubSeq(address, 2, Len(address)))

\* The target holds an address of this literal value.
InTarget(string_ip) == \E a \in nb_ips : AddressPart(a.address) = string_ip

NoIpRow ==
    [stage |-> "", IP |-> "", ip |-> 0, mask |-> 0, string_ip |-> "",
     device_name |-> "", ip_type |-> "", interface_name |-> "",
     existing_match |-> FALSE, skipped |-> FALSE, prefix_create |-> FALSE,
     creates |-> <<>>, in_target |-> FALSE]

IpRow(ip, string_ip) ==
    [NoIpRow EXCEPT !.stage = ip_stage, !.IP = ip_IP, !.ip = ip,
                    !.string_ip = string_ip,
                    !.in_target = InTarget(string_ip)]

\* ips.py:53-102, the loop body of create_ip_networks for one row.
create_ip_networks_row(network, api_ok) ==
    LET prefix == IpString(ip_IP, network.ip) \o "/" \o ToString(network.mask)
        row == [IpRow(network.ip, IpString(ip_IP, network.ip)) EXCEPT
                   !.mask = network.mask]
    IN /\ UNCHANGED <<nb_ips, nb_interfaces>>
       /\ IF HostRoute(ip_IP, network.mask)
          THEN /\ host_routes' = host_routes \cup {<<ip_IP, network.ip>>}
               /\ ip_last' = [row EXCEPT !.skipped = TRUE]
               /\ UNCHANGED nb_prefixes
          ELSE IF prefix \in existing_prefixes
          THEN /\ ip_last' = [row EXCEPT !.existing_match = TRUE, !.skipped = TRUE]
               /\ UNCHANGED <<nb_prefixes, host_routes>>
          ELSE /\ ip_last' = [row EXCEPT !.prefix_create = TRUE]
               /\ nb_prefixes' = IF api_ok THEN nb_prefixes \cup {prefix}
                                          ELSE nb_prefixes
               /\ UNCHANGED host_routes

\* The address create calls of one allocation (ips.py:264-369).  ok1: the
\* create on the interface found by name; ok_if, ok2: the create of the new
\* interface and of the address on it.
AllocationCreates(string_ip, role, found, device_id, ok1, ok_if, ok2) ==
    LET first == IF found # 0
                 THEN <<[address |-> string_ip, role |-> role,
                         interface_id |-> found, ok |-> ok1]>>
                 ELSE <<>>
        second == IF (found = 0 \/ ~ok1) /\ device_id # 0 /\ ok_if
                  THEN <<[address |-> string_ip, role |-> role,
                          interface_id |-> NextInterfaceId, ok |-> ok2]>>
                  ELSE <<>>
    IN first \o second

\* ips.py:213-369, the loop body of create_ip_allocated for one allocation.
create_ip_allocated_row(obj, ip, name, ip_type, rnd, ok1, api_if, ok2) ==
    LET device_name == obj.name
        string_ip == IpString(ip_IP, ip)
        existing_match == ExistingMatch(existing_ips, string_ip)
        use_vrrp_role == IF ip_type = "shared" THEN "vrrp" ELSE ""
        interface_name == IF name # ""
                          THEN change_interface_name(name, obj.objtype_id)
                          ELSE "no_RT_name" \o ToString(rnd)
        matching == {i \in nb_interfaces :
                        i.device = device_name /\ i.name = interface_name}
        found == IF matching = {} THEN 0 ELSE (CHOOSE i \in matching : TRUE).id
        device_id == TargetDeviceId(device_name)
        \* the target refuses a second interface of the same name on a device
        ok_if == api_if /\ matching = {}
        creates == AllocationCreates(string_ip, use_vrrp_role, found, device_id,
                                     ok1, ok_if, ok2)
        stored == {[id |-> NextIpId, address |-> c.address \o HostMask(ip_IP),
                    role |-> c.role, interface_id |-> c.interface_id] :
                      c \in {creates[k] : k \in {j \in DOMAIN creates : creates[j].ok}}}
        row == [IpRow(ip, string_ip) EXCEPT
                   !.device_name = device_name, !.ip_type = ip_type,
                   !.interface_name = interface_name,
                   !.existing_match = existing_match]
    IN /\ UNCHANGED <<nb_prefixes, host_routes>>
       /\ IF device_name = "" \/ SkipAllocation(existing_match, ip_type)
          THEN /\ ip_last' = [row EXCEPT !.skipped = TRUE]
               /\ UNCHANGED <<nb_ips, nb_interfaces>>
          ELSE /\ ip_last' = [row EXCEPT !.creates = creates]
               /\ nb_ips' = nb_ips \cup stored
               /\ nb_interfaces' =
                     IF (found = 0 \/ ~ok1) /\ device_id # 0 /\ ok_if
                     THEN nb_interfaces \cup
                             {[id |-> NextInterfaceId, device |-> device_name,
                               name |-> interface_name]}
                     ELSE nb_interfaces

\* ips.py:402-439, the loop body of create_ip_not_allocated for one row.
create_ip_not_allocated_row(ip, api_ok) ==
    LET string_ip == IpString(ip_IP, ip)
        existing_match == ExistingMatch(existing_ips, string_ip)
        row == [IpRow(ip, string_ip) EXCEPT !.existing_match = existing_match]
        create == [address |-> string_ip, role |-> "", interface_id |-> 0,
                   ok |-> api_ok]
    IN /\ UNCHANGED <<nb_prefixes, nb_interfaces, host_routes>>
       /\ IF existing_match
          THEN /\ ip_last' = [row EXCEPT !.skipped = TRUE]
               /\ UNCHANGED nb_ips
          ELSE /\ ip_last' = [row EXCEPT !.creates = <<create>>]
               /\ nb_ips' =
                     IF api_ok
                     THEN nb_ips \cup
                             {[id |-> NextIpId,
                               address |-> string_ip \o HostMask(ip_IP),
                               role |-> "", interface_id |-> 0]}
                     ELSE nb_ips

IpNetworkRow ==
    /\ ip_stage = "networks"
    /\ ip_rows < MaxIpRows
    /\ \E network \in NetworkRows(ip_IP), api_ok \in BOOLEAN :
           create_ip_networks_row(network, api_ok)
    /\ ip_rows' = ip_rows + 1
    /\ UNCHANGED <<ip_IP, ip_stage, existing_prefixes, existing_ips>>
    /\ UNCHANGED notIpVars

IpAllocatedRow ==
    /\ ip_stage = "allocated"
    /\ ip_rows < MaxIpRows
    /\ \E a \in Allocations(ip_IP), rnd \in RandomInts,
          ok1 \in BOOLEAN, api_if \in BOOLEAN, ok2 \in BOOLEAN :
           create_ip_allocated_row(ObjectOf(a.object_id), a.ip, a.name, a.type,
                                   rnd, ok1, api_if, ok2)
    /\ ip_rows' = ip_rows + 1
    /\ UNCHANGED <<ip_IP, ip_stage, existing_prefixes, existing_ips>>
    /\ UNCHANGED notIpVars

IpNotAllocatedRow ==
    /\ ip_stage = "not_allocated"
    /\ ip_rows < MaxIpRows
    /\ \E ip \in AddressIps(ip_IP), api_ok \in BOOLEAN :
           create_ip_not_allocated_row(ip, api_ok)
    /\ ip_rows' = ip_rows + 1
    /\ UNCHANGED <<ip_IP, ip_stage, existing_prefixes, existing_ips>>
    /\ UNCHANGED notIpVars

\* The rows of a stage are exhausted: the next stage starts and reads what the
\* target holds (migrate.py:458-466; ips.py:40, 131, 391).
IpNextStage ==
    /\ ip_stage # "done"
    /\ ip_stage' = CASE ip_stage = "networks" -> "allocated"
                     [] ip_stage = "allocated" -> "not_allocated"
                     [] ip_stage = "not_allocated" /\ ip_IP = "4" -> "networks"
                     [] OTHER -> "done"
    /\ ip_IP' = IF ip_stage = "not_allocated" THEN "6" ELSE ip_IP
    /\ existing_prefixes' = nb_prefixes
    /\ existing_ips' = {a.address : a \in nb_ips}
    /\ UNCHANGED <<nb_prefixes, nb_ips, nb_interfaces, host_routes, ip_rows, ip_last>>
    /\ UNCHANGED notIpVars

\* What the target holds before the run: nothing, or the prefix 10.0.0.0/24
\* with the address 10.0.0.5/24.
PreloadedPrefixes == {"10.0.0.0/24"}

PreloadedIps ==
    {[id |-> 1, address |-> "10.0.0.5/24", role |-> "", interface_id |-> 0]}

\* sw1 has the interface Ethernet0, sw2 has no interface.
PreloadedInterfaces == {[id |-> 1, device |-> "sw1", name |-> "Ethernet0"]}

\* The idle state of the IP stages.
IpsIdle ==
    /\ ip_IP = "4"
    /\ ip_stage = "done"
    /\ existing_prefixes = {}
    /\ existing_ips = {}
    /\ nb_prefixes = {}
    /\ nb_ips = {}
    /\ nb_interfaces = {}
    /\ host_routes = {}
    /\ ip_rows = 0
    /\ ip_last = NoIpRow

\* create_ip_networks(netbox, "4") has taken its snapshot (ips.py:40).
IpsStart ==
    /\ ip_IP = "4"
    /\ ip_stage = "networks"
    /\ \E preloaded \in BOOLEAN :
          /\ nb_prefixes = IF preloaded THEN PreloadedPrefixes ELSE {}
          /\ nb_ips = IF preloaded THEN PreloadedIps ELSE {}
    /\ existing_prefixes = nb_prefixes
    /\ existing_ips = {}
    /\ nb_interfaces = PreloadedInterfaces
    /\ host_routes = {}
    /\ ip_rows = 0
    /\ ip_last = NoIpRow

(***************************************************************************)
(* Gap analysis: create_available_subnets                                  *)
(*                                                                         *)
(* A network is a record [v, ip, len]: IP version, network address and     *)
(* prefix length.  IPv4 addresses are integers; an IPv6 address of         *)
(* 2001:db8::/100 is given by its low 28 bits.                             *)
(***************************************************************************)

\* Prefixes the target may hold when the analysis starts: 10.0.0.0/24,
\* 10.0.0.0/26, 10.0.0.128/25, 10.0.0.192/26, 10.0.0.4/31, 2001:db8::/100,
\* 2001:db8::1:0/112, 2001:db8::2/127.
PrefixPool ==
    {[v |-> "4", ip |-> 167772160, len |-> 24],
     [v |-> "4", ip |-> 167772160, len |-> 26],
     [v |-> "4", ip |-> 167772288, len |-> 25],
     [v |-> "4", ip |-> 167772352, len |-> 26],
     [v |-> "4", ip |-> 167772164, len |-> 31],
     [v |-> "6", ip |-> 0, len |-> 100],
     [v |-> "6", ip |-> 65536, len |-> 112],
     [v |-> "6", ip |-> 2, len |-> 127]}

\* Number of addresses of a network of the given length.
NumAddresses(v, len) == 2 ^ ((IF v = "4" THEN 32 ELSE 128) - len)

broadcast_address(net) == net.ip + NumAddresses(net.v, net.len) - 1

\* network.subnet_of(parent_network); a TypeError on mixed versions is caught
\* (available_subnets.py:199).
subnet_of(net, parent_network) ==
    /\ net.v = parent_network.v
    /\ parent_network.ip <= net.ip
    /\ broadcast_address(net) <= broadcast_address(parent_network)

\* str(subnet)
PrefixString(net) == IpString(net.v, net.ip) \o "/" \o ToString(net.len)

\* available_subnets.py:169-172.
TooSmall(net) ==
    (net.v = "4" /\ net.len >= 31) \/ (net.v = "6" /\ net.len >= 127)

\* available_subnets.py:176-198: of the other prefixes with a shorter mask
\* that contain the network, the one with the shortest mask is kept.
Containers(net, existing) ==
    {q \in existing : q # net /\ q.len < net.len /\ subnet_of(net, q)}

HasParent(net, existing) == ~TooSmall(net) /\ Containers(net, existing) # {}

ParentOf(net, existing) ==
    CHOOSE q \in Containers(net, existing) :
        \A r \in Containers(net, existing) : q.len <= r.len

\* child_prefixes.sort(key=get_network_addr), available_subnets.py:232.
RECURSIVE SortByAddress(_)
SortByAddress(nets) ==
    IF nets = {}
    THEN <<>>
    ELSE LET first == CHOOSE x \in nets :
                         \A y \in nets : x.ip < y.ip \/ (x.ip = y.ip /\ x.len <= y.len)
         IN <<first>> \o SortByAddress(nets \ {first})

\* available_subnets.py:153-208.
NetworkGroups(existing) ==
    LET parents == {ParentOf(n, existing) : n \in {m \in existing : HasParent(m, existing)}}
    IN [q \in parents |->
           SortByAddress({n \in existing : HasParent(n, existing)
                                              /\ ParentOf(n, existing) = q})]

\* available_subnets.py:258.
PrefixSizes(v) == IF v = "4" THEN 24..29 ELSE {64, 80, 96, 112}

\* ipaddress.ip_network((address, prefixlen)) raises ValueError when the
\* address has host bits set.
HostBitsSet(v, address, len) == address % NumAddresses(v, len) # 0

\* list(gap_network.subnets(new_prefix=new_prefix_len))[:2]
FirstTwoSubnets(gap_network, new_prefix_len) ==
    {[v |-> gap_network.v,
      ip |-> gap_network.ip + k * NumAddresses(gap_network.v, new_prefix_len),
      len |-> new_prefix_len] : k \in 0..1}

\* available_subnets.py:254-283: the subnets proposed for the gap that ends
\* before start.
GapSubnets(parent, from, start) ==
    IF HostBitsSet(parent.v, from, parent.len)
    THEN {}
    ELSE LET gap_network == [v |-> parent.v, ip |-> from, len |-> parent.len]
         IN UNION {{subnet \in FirstTwoSubnets(gap_network, new_prefix_len) :
                       subnet.ip < start /\ broadcast_address(subnet) < start} :
                   new_prefix_len \in {l \in PrefixSizes(parent.v) : l > parent.len}}

\* available_subnets.py:293-321: the subnets proposed for the end gap.
EndGapSubnets(parent, from) ==
    IF HostBitsSet(parent.v, from, parent.len)
    THEN {}
    ELSE LET gap_network == [v |-> parent.v, ip |-> from, len |-> parent.len]
         IN UNION {FirstTwoSubnets(gap_network, new_prefix_len) :
                   new_prefix_len \in {l \in PrefixSizes(parent.v) : l > parent.len}}

FailedCalls == {c \in gap_calls : ~c.ok}

\* The create calls for a set of subnets; the calls in failed raise.
IssueCalls(parent, subnets, failed, kind) ==
    gap_calls' = gap_calls \cup
        {[parent |-> parent, subnet |-> subnet, prefix |-> PrefixString(subnet),
          kind |-> kind, ok |-> subnet \notin failed] : subnet \in subnets}

\* Which create calls of a step may raise.
MayFail(subnets) ==
    {f \in SUBSET subnets : Cardinality(f) + Cardinality(FailedCalls) <= MaxFailedCreates}

\* available_subnets.py:150-208: read the prefixes and group them.
GapAnalyse ==
    /\ gap_pc = "start"
    /\ network_groups' = NetworkGroups(gap_existing)
    /\ gap_parents' = SortByAddress(DOMAIN network_groups')
    /\ gap_i' = 1
    /\ prev_end' = IF gap_parents' = <<>> THEN 0 ELSE Head(gap_parents').ip
    /\ gap_pc' = IF gap_parents' = <<>> THEN "done" ELSE "walk"
    /\ UNCHANGED <<gap_existing, gap_calls>>
    /\ UNCHANGED notGapVars

\* available_subnets.py:238-289: one child of the parent being processed.
GapChild ==
    /\ gap_pc = "walk"
    /\ gap_i <= Len(network_groups[Head(gap_parents)])
    /\ LET parent == Head(gap_parents)
           child_net == network_groups[parent][gap_i]
           start == child_net.ip
           subnets == IF start > prev_end
                      THEN GapSubnets(parent, prev_end, start)
                      ELSE {}
       IN /\ \E failed \in MayFail(subnets) :
                IssueCalls(parent, subnets, failed, "gap")
          /\ prev_end' = broadcast_address(child_net) + 1
    /\ gap_i' = gap_i + 1
    /\ UNCHANGED <<gap_pc, gap_existing, network_groups, gap_parents>>
    /\ UNCHANGED notGapVars

\* available_subnets.py:291-324: the gap after the last child; then the next
\* parent (available_subnets.py:214-235) or the end of the analysis.
GapEnd ==
    /\ gap_pc = "walk"
    /\ gap_i > Len(network_groups[Head(gap_parents)])
    /\ LET parent == Head(gap_parents)
           subnets == IF prev_end < broadcast_address(parent)
                      THEN EndGapSubnets(parent, prev_end)
                      ELSE {}
       IN \E failed \in MayFail(subnets) :
             IssueCalls(parent, subnets, failed, "end")
    /\ gap_parents' = Tail(gap_parents)
    /\ gap_i' = 1
    /\ prev_end' = IF gap_parents' = <<>> THEN 0 ELSE Head(gap_parents').ip
    /\ gap_pc' = IF gap_parents' = <<>> THEN "done" ELSE "walk"
    /\ UNCHANGED <<gap_existing, network_groups>>
    /\ UNCHANGED notGapVars

\* The idle state of the gap analysis.
GapsIdle ==
    /\ gap_pc = "done"
    /\ gap_existing = {}
    /\ network_groups = <<>>
    /\ gap_parents = <<>>
    /\ gap_i = 1
    /\ prev_end = 0
    /\ gap_calls = {}

\* create_available_subnets is entered with some prefixes in the target.
GapsStart ==
    /\ gap_pc = "start"
    /\ gap_existing \in SUBSET PrefixPool
    /\ network_groups = <<>>
    /\ gap_parents = <<>>
    /\ gap_i = 1
    /\ prev_end = 0
    /\ gap_calls = {}

(***************************************************************************)
(* The base pipeline: run_base_migration, stage by stage, run after run    *)
(*                                                                         *)
(* The source is one fixed data set.  A run is one process: module-level   *)
(* state starts empty in every run, files written by pickleDump stay.      *)
(* The target refuses a create that breaks one of its uniqueness rules     *)
(* (names of tags, VLAN groups, cluster types, clusters, VMs, sites,       *)
(* roles, manufacturers, device types and devices; name and vid of a VLAN  *)
(* in its group; name of an interface on its device; one cable per         *)
(* interface) or that names a site, role, manufacturer, device type,       *)
(* device or interface it does not hold; any other create is stored        *)
(* unless the call fails.                                                  *)
(***************************************************************************)

\* Table TagTree.
TagTree == <<"prod">>

\* Rows of VLANIPv4 (VLANIPv6 is empty): both VLANs are called "X".
PlVlanRows ==
    <<[domain_id |-> 1, vlan_id |-> 10, net_id |-> 1],
      [domain_id |-> 1, vlan_id |-> 20, net_id |-> 2]>>

\* Objects of type 1504 (VM), none of them in a cluster.
PlVms == <<"vm1">>

\* Objects of type 1562 (location) and the racks below them, with their row.
PlSites == <<[id |-> 100, name |-> "DC1"]>>

PlRacksAtSite(site_id) ==
    IF site_id = 100 THEN <<[id |-> 1, row_name |-> "A", name |-> "R1"]>> ELSE <<>>

\* A create call of the current run: kind and key of the resource, whether
\* it was stored, and whether the call itself failed (fault) as opposed to
\* being refused by the target.
PlCall(kind, key, ok, fault) ==
    [run |-> pl_run, kind |-> kind, key |-> key, ok |-> ok, fault |-> fault]

Faults(calls) == {i \in DOMAIN calls : calls[i].fault}

CallKeys(calls) == {<<calls[i].kind, calls[i].key>> : i \in DOMAIN calls}

FaultedKeys(calls) == {<<calls[i].kind, calls[i].key>> : i \in Faults(calls)}

\* The sets of create calls that may fail in a stage, given the calls the
\* stage issues when none fails: a call that fails keeps failing for the
\* rest of the stage, and a history holds at most MaxFailedCreates failures.
FaultChoices(calls) ==
    {f \in SUBSET CallKeys(calls) : pl_faults + Cardinality(f) <= MaxFailedCreates}

\* pickleLoad (utils.py:22-37).
pickleLoad(filename, default) ==
    IF files[filename].exists THEN files[filename].data ELSE default

\* pickleDump (utils.py:39-49): the files after the call.
pickleDump(fs, filename, data) ==
    IF STORE_DATA
    THEN [fs EXCEPT ![filename] = [exists |-> TRUE, data |-> data]]
    ELSE fs

\* "for name in names: if name not in known: create(name)": the loop shared
\* by create_global_tags, create_vlan_groups and create_unmounted_vms.  known
\* is the loop's own set, stored the target's.  create_global_tags adds the
\* name to its set whether or not the create succeeded (utils.py:165-171).
RECURSIVE EnsureNames(_, _, _, _, _, _)
EnsureNames(kind, names, known, stored, failed, add_always) ==
    IF names = <<>>
    THEN [known |-> known, stored |-> stored, calls |-> <<>>]
    ELSE LET name == Head(names)
             fault == <<kind, name>> \in failed
             ok == ~fault /\ name \notin stored
             rest == EnsureNames(kind, Tail(names),
                                 IF ok \/ add_always THEN known \cup {name} ELSE known,
                                 IF ok THEN stored \cup {name} ELSE stored,
                                 failed, add_always)
         IN IF name \in known
            THEN EnsureNames(kind, Tail(names), known, stored, failed, add_always)
            ELSE [rest EXCEPT !.calls = <<PlCall(kind, name, ok, fault)>> \o @]

\* migrate.py:409-415: create_global_tags for the IP tags, then for TagTree.
TagsStage(failed) ==
    LET ip_tags == EnsureNames("tag", <<"IPv4", "IPv6">>, netbox.tags,
                               netbox.tags, failed, TRUE)
        tree == EnsureNames("tag", TagTree, ip_tags.stored, ip_tags.stored,
                            failed, TRUE)
    IN [netbox |-> [netbox EXCEPT !.tags = tree.stored],
        calls |-> ip_tags.calls \o tree.calls]

\* vlans.py:7-52, create_vlan_groups over the rows of VLANDomain.
VlanGroupsStage(failed) ==
    LET groups == EnsureNames("vlan_group", <<VLANDomain[1], VLANDomain[2]>>,
                              netbox.vlan_groups, netbox.vlan_groups, failed, FALSE)
    IN [netbox |-> [netbox EXCEPT !.vlan_groups = groups.stored],
        calls |-> groups.calls]

\* vlans.py:84-132 over a list of rows: names is vlans_for_group, map is
\* network_id_group_name_id, vlans the target's VLANs.
RECURSIVE VlanRows(_, _, _, _, _)
VlanRows(rows, names, map, vlans, failed) ==
    IF rows = <<>>
    THEN [map |-> map, vlans |-> vlans, calls |-> <<>>]
    ELSE LET row == Head(rows)
             vlan_name == VLANDescription[<<row.domain_id, row.vlan_id>>]
             vlan_group_name == VLANDomain[row.domain_id]
             name == UniqueVlanName(vlan_name, names[vlan_group_name])
             key == vlan_group_name \o "/" \o name
             fault == <<"vlan", key>> \in failed
             ok == /\ ~fault
                   /\ \A w \in vlans : w.group = vlan_group_name
                          => (w.name # name /\ w.vid # row.vlan_id)
             created_vlan == [id |-> Cardinality(vlans) + 1, group |-> vlan_group_name,
                              vid |-> row.vlan_id, name |-> name]
             rest == IF ok
                     THEN VlanRows(Tail(rows),
                                   [names EXCEPT ![vlan_group_name] = @ \cup {name}],
                                   [map EXCEPT ![row.net_id] =
                                       <<vlan_group_name, name, created_vlan.id>>],
                                   vlans \cup {created_vlan}, failed)
                     ELSE VlanRows(Tail(rows), names, map, vlans, failed)
         IN IF vlan_name = ""
            THEN VlanRows(Tail(rows), names, map, vlans, failed)
            ELSE [rest EXCEPT !.calls = <<PlCall("vlan", key, ok, fault)>> \o @]

\* vlans.py:54-137, create_vlans.
VlansStage(failed) ==
    LET r == VlanRows(PlVlanRows, [g \in VlanGroupNames |-> {}],
                      [n \in VlanNetIds |-> <<>>], netbox.vlans, failed)
    IN [netbox |-> [netbox EXCEPT !.vlans = r.vlans],
        files |-> pickleDump(files, "network_id_group_name_id", r.map),
        calls |-> r.calls]

\* vms.py:185-285, create_unmounted_vms; no object is a cluster, so
\* create_mounted_vms (vms.py:76-183) finds nothing to do.
VmsStage(failed) ==
    LET types == EnsureNames("cluster_type", <<"Unmounted Cluster">>,
                             netbox.cluster_types, netbox.cluster_types, failed, FALSE)
        clusters == EnsureNames("cluster", <<"Unmounted Cluster">>,
                                netbox.clusters, netbox.clusters, failed, FALSE)
        vms == EnsureNames("vm", PlVms, netbox.vms, netbox.vms, failed, FALSE)
    IN [netbox |-> [netbox EXCEPT !.cluster_types = types.stored,
                                  !.clusters = clusters.stored,
                                  !.vms = vms.stored],
        calls |-> types.calls \o clusters.calls \o vms.calls]

\* config.py:45.
SITE_NAME_LENGTH_THRESHOLD == 10

\* row_name.rstrip(".")
RECURSIVE RStripDots(_)
RStripDots(s) ==
    IF s # "" /\ SubSeq(s, Len(s), Len(s)) = "."
    THEN RStripDots(SubSeq(s, 1, Len(s) - 1))
    ELSE s

\* sites.py:90-94: the rack name carries site and row.
RackName(site_name, row_name, rack_name) ==
    IF ~StartsWith(rack_name, RStripDots(row_name) \o ".")
    THEN site_name \o "." \o row_name \o "." \o rack_name
    ELSE site_name \o "." \o rack_name

\* sites.py:73-117, create_rows_and_racks: every rack is created.
RECURSIVE RacksOfSite(_, _, _, _)
RacksOfSite(site_name, rows, racks, failed) ==
    IF rows = <<>>
    THEN [racks |-> racks, calls |-> <<>>]
    ELSE LET rack_name == RackName(site_name, Head(rows).row_name, Head(rows).name)
             fault == <<"rack", rack_name>> \in failed
             rack == [id |-> Cardinality(racks) + 1, name |-> rack_name,
                      site |-> site_name]
             rest == RacksOfSite(site_name, Tail(rows),
                                 IF fault THEN racks ELSE racks \cup {rack}, failed)
         IN [rest EXCEPT !.calls = <<PlCall("rack", rack_name, ~fault, fault)>> \o @]

\* sites.py:14-71, create_sites_and_racks without a target site.
RECURSIVE SitesAndRacks(_, _, _, _)
SitesAndRacks(site_rows, sites, racks, failed) ==
    IF site_rows = <<>>
    THEN [sites |-> sites, racks |-> racks, calls |-> <<>>]
    ELSE LET site_name == Head(site_rows).name
             fault == <<"site", site_name>> \in failed
             below == RacksOfSite(site_name, PlRacksAtSite(Head(site_rows).id),
                                  racks, failed)
         IN IF site_name \in sites
            THEN LET rest == SitesAndRacks(Tail(site_rows), sites, below.racks, failed)
                 IN [rest EXCEPT !.calls = below.calls \o @]
            ELSE IF Len(site_name) > SITE_NAME_LENGTH_THRESHOLD
            THEN SitesAndRacks(Tail(site_rows), sites, racks, failed)
            ELSE IF fault
            THEN LET rest == SitesAndRacks(Tail(site_rows), sites, racks, failed)
                 IN [rest EXCEPT !.calls =
                        <<PlCall("site", site_name, FALSE, TRUE)>> \o @]
            ELSE LET rest == SitesAndRacks(Tail(site_rows), sites \cup {site_name},
                                           below.racks, failed)
                 IN [rest EXCEPT !.calls =
                        <<PlCall("site", site_name, TRUE, FALSE)>> \o below.calls \o @]

SitesRacksStage(failed) ==
    LET r == SitesAndRacks(PlSites, netbox.sites, netbox.racks, failed)
    IN [netbox |-> [netbox EXCEPT !.sites = r.sites, !.racks = r.racks],
        calls |-> r.calls]


\* Table Object: the objects that become devices.  sw1 and sw2 are racked,
\* srv1 is not.
PlObjects ==
    <<[id |-> 1, name |-> "sw1", objtype_id |-> 8],
      [id |-> 2, name |-> "sw2", objtype_id |-> 8],
      [id |-> 3, name |-> "srv1", objtype_id |-> 4]>>

PlObject(object_id) == PlObjects[object_id]

\* Table RackSpace: rack_id, object_id, unit_no, atom.
PlAtomsAtRack(rack_id) ==
    IF rack_id = 1
    THEN <<[object_id |-> 1, unit_no |-> 10, atom |-> "front"],
           [object_id |-> 2, unit_no |-> 20, atom |-> "front"]>>
    ELSE <<>>

\* db.py:122-136 over table Dictionary.
getDeviceType(objtype_id) == IF objtype_id = 8 THEN "Network switch" ELSE "Server"

\* devices.py:56.
DeviceTypeModel(device_type, height, is_full_depth) ==
    device_type \o "-" \o ToString(height) \o "U"
        \o (IF is_full_depth THEN "-full" ELSE "")

\* s in increasing order of id.
RECURSIVE ById(_)
ById(s) ==
    IF s = {}
    THEN <<>>
    ELSE LET first == CHOOSE x \in s : \A y \in s : x.id <= y.id
         IN <<first>> \o ById(s \ {first})

\* devices.py:279-304: role, manufacturer and device type are created outside
\* any try; a failing call ends the run.
Unguarded(st, kind, field, name, failed) ==
    IF st.aborted \/ name \in st.known[field]
    THEN st
    ELSE IF <<kind, name>> \in failed \/ name \in st.netbox[field]
    THEN [st EXCEPT !.aborted = TRUE,
                    !.calls = @ \o <<PlCall(kind, name, FALSE, <<kind, name>> \in failed)>>]
    ELSE [st EXCEPT !.netbox[field] = @ \cup {name},
                    !.known[field] = @ \cup {name},
                    !.calls = @ \o <<PlCall(kind, name, TRUE, FALSE)>>]

\* The target stores a device when its site, role and type exist
\* (custom_netbox.py:61-75), its name is free and its rack position is free.
DeviceAccepted(nb, device) ==
    /\ device.site.name \in nb.sites
    /\ device.device_role.name \in nb.device_roles
    /\ device.device_type.model \in nb.device_types
    /\ \A d \in nb.devices :
          /\ d.name # device.name
          /\ ~(d.position # 0 /\ d.rack.name = device.rack.name
                 /\ d.position = device.position /\ d.face = device.face)

\* devices.py:236-314 for one object of a rack and devices.py:60-156.
RackedObject(st, rack, atom, failed) ==
    LET obj == PlObject(atom.object_id)
        type_name == getDeviceType(obj.objtype_id)
        model == DeviceTypeModel(type_name, 1, FALSE)
        s1 == Unguarded(st, "device_role", "device_roles", type_name, failed)
        s2 == Unguarded(s1, "manufacturer", "manufacturers", type_name, failed)
        s3 == Unguarded(s2, "device_type", "device_types", model, failed)
        loc == [face |-> atom.atom, start_height |-> atom.unit_no,
                device_role |-> type_name, manufacturer |-> type_name,
                device_type_model |-> model, site_name |-> rack.site,
                rack_name |-> rack.name]
        at == DeviceAtLocation(s3.global_devices, loc)
        name_at_location == NameAtLocation(obj.name, s3.global_names)
        device == NewDevice(Cardinality(s3.netbox.devices) + 1, name_at_location, loc)
        fault == <<"device", name_at_location>> \in failed
        ok == ~fault /\ DeviceAccepted(s3.netbox, device)
    IN IF s3.aborted
       THEN s3
       ELSE IF at # 0
       THEN [s3 EXCEPT !.physical = @ \cup
                {<<s3.global_devices[at].name, obj.id, s3.global_devices[at].id,
                   obj.objtype_id>>}]
       ELSE IF ok
       THEN [s3 EXCEPT !.netbox.devices = @ \cup {device},
                       !.global_devices = Append(@, device),
                       !.global_names = @ \cup {name_at_location},
                       !.physical = @ \cup
                           {<<name_at_location, obj.id, device.id, obj.objtype_id>>},
                       !.calls = @ \o <<PlCall("device", name_at_location, TRUE, FALSE)>>]
       ELSE [s3 EXCEPT !.calls = @ \o <<PlCall("device", name_at_location, FALSE, fault)>>]

RECURSIVE RackedObjects(_, _, _, _)
RackedObjects(st, rack, atoms, failed) ==
    IF atoms = <<>>
    THEN st
    ELSE RackedObjects(RackedObject(st, rack, Head(atoms), failed), rack,
                       Tail(atoms), failed)

\* devices.py:189-206: the racks of the target, each looked up in RackSpace
\* under the id the target gave it.
RECURSIVE RackedRacks(_, _, _)
RackedRacks(st, racks, failed) ==
    IF racks = <<>>
    THEN st
    ELSE RackedRacks(RackedObjects(st, Head(racks), PlAtomsAtRack(Head(racks).id),
                                   failed),
                     Tail(racks), failed)

\* devices.py:158-209, create_racked_devices.
RackedDevicesStage(failed) ==
    LET st == [netbox |-> netbox, global_devices |-> global_devices,
               global_names |-> global_names,
               known |-> [device_roles |-> netbox.device_roles,
                          manufacturers |-> netbox.manufacturers,
                          device_types |-> netbox.device_types],
               physical |-> global_physical_object_ids, files |-> files,
               calls |-> <<>>, aborted |-> FALSE]
        r == RackedRacks(st, ById(netbox.racks), failed)
    IN [r EXCEPT !.files = IF r.aborted
                           THEN files
                           ELSE pickleDump(files, "global_physical_object_ids",
                                           r.physical)]

\* devices.py:382-513 for one object: the device goes to the site "None".
NonRackedObject(st, obj, existing_device_names, failed) ==
    LET type_name == getDeviceType(obj.objtype_id)
        model == DeviceTypeModel(type_name, 0, FALSE)
        type_fault == <<"device_type", model>> \in failed
        type_ok == /\ ~type_fault
                   /\ model \notin st.netbox.device_types
                   /\ type_name \in st.netbox.manufacturers
        s1 == IF model \in st.known
              THEN st
              ELSE IF type_ok
              THEN [st EXCEPT !.netbox.device_types = @ \cup {model},
                              !.known = @ \cup {model},
                              !.calls = @ \o <<PlCall("device_type", model, TRUE, FALSE)>>]
              ELSE [st EXCEPT !.calls = @ \o
                        <<PlCall("device_type", model, FALSE, type_fault)>>]
        loc == [face |-> "", start_height |-> 0, device_role |-> type_name,
                manufacturer |-> type_name, device_type_model |-> model,
                site_name |-> "None", rack_name |-> ""]
        device == NewDevice(Cardinality(s1.netbox.devices) + 1, obj.name, loc)
        fault == <<"device", obj.name>> \in failed
        ok == ~fault /\ DeviceAccepted(s1.netbox, device)
    IN IF obj.name = "" \/ obj.name \in existing_device_names
       THEN st
       ELSE IF ok
       THEN [s1 EXCEPT !.netbox.devices = @ \cup {device},
                       !.non_physical = @ \cup
                           {<<obj.name, obj.id, device.id, obj.objtype_id>>},
                       !.calls = @ \o <<PlCall("device", obj.name, TRUE, FALSE)>>]
       ELSE [s1 EXCEPT !.not_created = Append(@, obj),
                       !.calls = @ \o <<PlCall("device", obj.name, FALSE, fault)>>]

RECURSIVE NonRackedObjects(_, _, _, _)
NonRackedObjects(st, objs, existing_device_names, failed) ==
    IF objs = <<>>
    THEN st
    ELSE NonRackedObjects(NonRackedObject(st, Head(objs), existing_device_names, failed),
                          Tail(objs), existing_device_names, failed)

\* devices.py:353-515, create_parent_child_devices: the names of the target's
\* devices are read once per call.
create_parent_child_devices(st, objs, failed) ==
    NonRackedObjects([st EXCEPT !.not_created = <<>>], objs,
                     {d.name : d \in st.netbox.devices}, failed)

\* devices.py:331-348 for one object type: a second call for the objects
\* whose create failed.
NonRackedType(st, objtype_id, failed) ==
    LET objs == SelectSeq(PlObjects, LAMBDA o : o.objtype_id = objtype_id)
        first == create_parent_child_devices(st, objs, failed)
    IN IF first.not_created # <<>>
       THEN create_parent_child_devices(first, first.not_created, failed)
       ELSE first

\* devices.py:316-351, create_non_racked_devices; of OBJTYPE_ID_NAMES the
\* types 4 and 8 have objects.
NonRackedDevicesStage(failed) ==
    LET st == [netbox |-> netbox, known |-> global_device_types,
               non_physical |-> pickleLoad("global_non_physical_object_ids", {}),
               not_created |-> <<>>, files |-> files, calls |-> <<>>]
        r == NonRackedType(NonRackedType(st, 4, failed), 8, failed)
    IN [r EXCEPT !.files = pickleDump(files, "global_non_physical_object_ids",
                                      r.non_physical)]

\* Table Port: id, object_id, name.  Port 12 has no name.
PlPorts ==
    <<[id |-> 11, object_id |-> 1, name |-> "eth0"],
      [id |-> 12, object_id |-> 1, name |-> ""],
      [id |-> 21, object_id |-> 2, name |-> "eth0"],
      [id |-> 31, object_id |-> 3, name |-> "eth0"]>>

PlPortIds == {11, 12, 21, 31}

\* Table Link: the ports of sw1 and sw2 are connected.
PlLinks == <<[porta |-> 11, portb |-> 21]>>

\* connection_ids as a function of the port id; 0 is "not in the dict".
NoConnectionIds == [port_id \in PlPortIds |-> 0]

\* The tuples (device_name, racktables_id, netbox_id, objtype_id) of a set
\* in the order of the object id.
RECURSIVE ByObject(_)
ByObject(s) ==
    IF s = {}
    THEN <<>>
    ELSE LET first == CHOOSE x \in s : \A y \in s : x[2] <= y[2]
         IN <<first>> \o ByObject(s \ {first})

\* interfaces.py:12-56, get_interfaces: the cached list when it is not empty.
get_interfaces ==
    LET cached_interfaces == pickleLoad("interfaces", {})
    IN IF cached_interfaces # {}
       THEN [interfaces |-> cached_interfaces, files |-> files]
       ELSE [interfaces |-> netbox.interfaces,
             files |-> pickleDump(files, "interfaces", netbox.interfaces)]

InterfaceKey(device_id, interface_name) ==
    ToString(device_id) \o "/" \o interface_name

\* The target stores an interface on an existing device under a name that
\* is free on that device.
InterfaceAccepted(nb, device_id, interface_name) ==
    /\ \E d \in nb.devices : d.id = device_id
    /\ \A i \in nb.interfaces : ~(i.device_id = device_id /\ i.name = interface_name)

\* interfaces.py:130-174 for one port of a device.
InterfacePort(st, dev, port, failed) ==
    LET interface_name == change_interface_name(port.name, dev[4])
        hits == {i \in st.known : i.device_id = dev[3] /\ i.name = interface_name}
        key == InterfaceKey(dev[3], interface_name)
        fault == <<"interface", key>> \in failed
        ok == ~fault /\ InterfaceAccepted(st.netbox, dev[3], interface_name)
        added_interface == [id |-> Cardinality(st.netbox.interfaces) + 1,
                            device_id |-> dev[3], name |-> interface_name]
    IN IF port.name = ""
       THEN st
       ELSE IF hits # {}
       THEN [st EXCEPT !.connection_ids[port.id] = (CHOOSE i \in hits : TRUE).id]
       ELSE IF ok
       THEN [st EXCEPT !.netbox.interfaces = @ \cup {added_interface},
                       !.known = @ \cup {added_interface},
                       !.connection_ids[port.id] = added_interface.id,
                       !.calls = @ \o <<PlCall("interface", key, TRUE, FALSE)>>]
       ELSE [st EXCEPT !.calls = @ \o <<PlCall("interface", key, FALSE, fault)>>]

RECURSIVE InterfacePorts(_, _, _, _)
InterfacePorts(st, dev, ports, failed) ==
    IF ports = <<>>
    THEN st
    ELSE InterfacePorts(InterfacePort(st, dev, Head(ports), failed), dev,
                        Tail(ports), failed)

\* interfaces.py:113-128: the ports of each device of a list.
RECURSIVE InterfaceDevices(_, _, _)
InterfaceDevices(st, device_list, failed) ==
    IF device_list = <<>>
    THEN st
    ELSE LET dev == Head(device_list)
             ports == SelectSeq(PlPorts, LAMBDA port : port.object_id = dev[2])
         IN InterfaceDevices(InterfacePorts(st, dev, ports, failed),
                             Tail(device_list), failed)

\* interfaces.py:58-179, create_interfaces: the devices come from the two
\* files, never from the memory of the device stages.
InterfacesStage(failed) ==
    LET physical == pickleLoad("global_physical_object_ids", {})
        non_physical == pickleLoad("global_non_physical_object_ids", {})
        got == get_interfaces
        st == [netbox |-> netbox, known |-> got.interfaces,
               connection_ids |-> NoConnectionIds, calls |-> <<>>]
        r == InterfaceDevices(st, ByObject(physical) \o ByObject(non_physical), failed)
    IN [netbox |-> r.netbox,
        files |-> pickleDump(got.files, "connection_ids", r.connection_ids),
        calls |-> r.calls]

CableKey(netbox_id_a, netbox_id_b) ==
    ToString(netbox_id_a) \o "-" \o ToString(netbox_id_b)

\* The target stores a cable when neither end carries one.
CableAccepted(nb, netbox_id_a, netbox_id_b) ==
    /\ netbox_id_a # netbox_id_b
    /\ {netbox_id_a, netbox_id_b} \subseteq {i.id : i \in nb.interfaces}
    /\ \A c \in nb.cables : {c.a, c.b} \cap {netbox_id_a, netbox_id_b} = {}

\* interfaces.py:203-237 over the rows of Link.
RECURSIVE ConnectionRows(_, _, _, _)
ConnectionRows(links, connection_ids, nb, failed) ==
    IF links = <<>>
    THEN [netbox |-> nb, calls |-> <<>>]
    ELSE LET interface_a == Head(links).porta
             interface_b == Head(links).portb
             netbox_id_a == connection_ids[interface_a]
             netbox_id_b == connection_ids[interface_b]
             key == CableKey(netbox_id_a, netbox_id_b)
             fault == <<"cable", key>> \in failed
             ok == ~fault /\ CableAccepted(nb, netbox_id_a, netbox_id_b)
             stored == IF ok
                       THEN [nb EXCEPT !.cables = @ \cup
                                {[a |-> netbox_id_a, b |-> netbox_id_b]}]
                       ELSE nb
             rest == ConnectionRows(Tail(links), connection_ids, stored, failed)
         IN IF netbox_id_a = 0 \/ netbox_id_b = 0
            THEN ConnectionRows(Tail(links), connection_ids, nb, failed)
            ELSE [rest EXCEPT !.calls = <<PlCall("cable", key, ok, fault)>> \o @]

\* interfaces.py:181-239, create_interface_connections: the mapping comes
\* from the file.
ConnectionsStage(failed) ==
    ConnectionRows(PlLinks, pickleLoad("connection_ids", NoConnectionIds),
                   netbox, failed)

\* Rows of IPv4Network, IPv4Allocation and IPv4Address; the IPv6 tables are
\* empty.  Every allocation names its interface.
PlNetworks(IP) ==
    IF IP = "4"
    THEN <<[id |-> 1, ip |-> 167772160, mask |-> 24],
           [id |-> 2, ip |-> 167772165, mask |-> 32]>>
    ELSE <<>>

PlAllocations(IP) ==
    IF IP = "4"
    THEN <<[object_id |-> 1, ip |-> 167772165, name |-> "eth0", type |-> "regular"]>>
    ELSE <<>>

PlAddresses(IP) == IF IP = "4" THEN <<167772165, 167772210>> ELSE <<>>

\* ips.py:53-104 over the rows of a network table.
RECURSIVE NetworkStageRows(_, _, _, _, _)
NetworkStageRows(IP, rows, existing, prefixes, failed) ==
    IF rows = <<>>
    THEN [prefixes |-> prefixes, calls |-> <<>>]
    ELSE LET network == Head(rows)
             prefix == IpString(IP, network.ip) \o "/" \o ToString(network.mask)
             fault == <<"prefix", prefix>> \in failed
             rest == NetworkStageRows(IP, Tail(rows), existing,
                                      IF fault THEN prefixes ELSE prefixes \cup {prefix},
                                      failed)
         IN IF HostRoute(IP, network.mask) \/ prefix \in existing
            THEN NetworkStageRows(IP, Tail(rows), existing, prefixes, failed)
            ELSE [rest EXCEPT !.calls = <<PlCall("prefix", prefix, ~fault, fault)>> \o @]

\* ips.py:14-111, create_ip_networks.
IpNetworksStage(IP, failed) ==
    LET r == NetworkStageRows(IP, PlNetworks(IP), netbox.prefixes, netbox.prefixes,
                              failed)
    IN [netbox |-> [netbox EXCEPT !.prefixes = r.prefixes], calls |-> r.calls]

StoredAddress(nb, IP, string_ip, role, interface_id) ==
    [id |-> Cardinality(nb.ips) + 1, address |-> string_ip \o HostMask(IP),
     role |-> role, interface_id |-> interface_id]

\* ips.py:213-369 for one allocation.
AllocatedStageRow(st, IP, existing, a, failed) ==
    LET obj == PlObject(a.object_id)
        device_name == obj.name
        string_ip == IpString(IP, a.ip)
        existing_match == ExistingMatch(existing, string_ip)
        use_vrrp_role == IF a.type = "shared" THEN "vrrp" ELSE ""
        interface_name == change_interface_name(a.name, obj.objtype_id)
        devs == {d \in st.netbox.devices : d.name = device_name}
        device_id == IF devs = {} THEN 0 ELSE (CHOOSE d \in devs : TRUE).id
        matching == {i \in st.netbox.interfaces :
                        i.device_id = device_id /\ i.name = interface_name}
        found == IF matching = {} THEN 0 ELSE (CHOOSE i \in matching : TRUE).id
        ip_fault == <<"address", string_ip>> \in failed
        key == InterfaceKey(device_id, interface_name)
        if_fault == <<"interface", key>> \in failed
        ok_if == ~if_fault /\ InterfaceAccepted(st.netbox, device_id, interface_name)
        added_interface == [id |-> Cardinality(st.netbox.interfaces) + 1,
                            device_id |-> device_id, name |-> interface_name]
        on_found == <<PlCall("address", string_ip, ~ip_fault, ip_fault)>>
        s1 == IF found = 0
              THEN st
              ELSE IF ip_fault
              THEN [st EXCEPT !.calls = @ \o on_found]
              ELSE [st EXCEPT !.calls = @ \o on_found,
                              !.netbox.ips = @ \cup
                                  {StoredAddress(st.netbox, IP, string_ip,
                                                 use_vrrp_role, found)}]
        s2 == IF ~ok_if
              THEN [s1 EXCEPT !.calls = @ \o
                       <<PlCall("interface", key, FALSE, if_fault)>>]
              ELSE IF ip_fault
              THEN [s1 EXCEPT !.netbox.interfaces = @ \cup {added_interface},
                              !.calls = @ \o
                                  <<PlCall("interface", key, TRUE, FALSE),
                                    PlCall("address", string_ip, FALSE, TRUE)>>]
              ELSE [s1 EXCEPT !.netbox.interfaces = @ \cup {added_interface},
                              !.netbox.ips = @ \cup
                                  {StoredAddress(s1.netbox, IP, string_ip,
                                                 use_vrrp_role, added_interface.id)},
                              !.calls = @ \o
                                  <<PlCall("interface", key, TRUE, FALSE),
                                    PlCall("address", string_ip, TRUE, FALSE)>>]
    IN IF device_name = "" \/ SkipAllocation(existing_match, a.type)
       THEN st
       ELSE IF found # 0 /\ ~ip_fault
       THEN s1
       ELSE IF device_id = 0
       THEN s1
       ELSE s2

RECURSIVE AllocatedStageRows(_, _, _, _, _)
AllocatedStageRows(st, IP, existing, rows, failed) ==
    IF rows = <<>>
    THEN st
    ELSE AllocatedStageRows(AllocatedStageRow(st, IP, existing, Head(rows), failed),
                            IP, existing, Tail(rows), failed)

\* ips.py:113-371, create_ip_allocated: existing_ips is read once.
IpAllocatedStage(IP, failed) ==
    AllocatedStageRows([netbox |-> netbox, calls |-> <<>>], IP,
                       {a.address : a \in netbox.ips}, PlAllocations(IP), failed)

\* ips.py:402-439 over the rows of an address table.
RECURSIVE NotAllocatedStageRows(_, _, _, _, _)
NotAllocatedStageRows(st, IP, existing, rows, failed) ==
    IF rows = <<>>
    THEN st
    ELSE LET string_ip == IpString(IP, Head(rows))
             fault == <<"address", string_ip>> \in failed
             call == <<PlCall("address", string_ip, ~fault, fault)>>
             next == IF ExistingMatch(existing, string_ip)
                     THEN st
                     ELSE IF fault
                     THEN [st EXCEPT !.calls = @ \o call]
                     ELSE [st EXCEPT !.calls = @ \o call,
                                     !.netbox.ips = @ \cup
                                         {StoredAddress(st.netbox, IP, string_ip, "", 0)}]
         IN NotAllocatedStageRows(next, IP, existing, Tail(rows), failed)

\* ips.py:373-441, create_ip_not_allocated.
IpNotAllocatedStage(IP, failed) ==
    NotAllocatedStageRows([netbox |-> netbox, calls |-> <<>>], IP,
                          {a.address : a \in netbox.ips}, PlAddresses(IP), failed)

\* The snapshot files the stages exchange.
FileNames ==
    {"global_physical_object_ids", "global_non_physical_object_ids",
     "interfaces", "connection_ids", "network_id_group_name_id"}

\* What pickleLoad's caller passes as the default of a file.
NoData(filename) ==
    CASE filename = "connection_ids" -> NoConnectionIds
      [] filename = "network_id_group_name_id" -> [n \in VlanNetIds |-> <<>>]
      [] OTHER -> {}

NoFiles == [filename \in FileNames |-> [exists |-> FALSE, data |-> NoData(filename)]]

\* An empty target.
EmptyTarget ==
    [tags |-> {}, vlan_groups |-> {}, vlans |-> {}, cluster_types |-> {},
     clusters |-> {}, vms |-> {}, sites |-> {}, racks |-> {},
     device_roles |-> {}, manufacturers |-> {}, device_types |-> {},
     devices |-> {}, interfaces |-> {}, cables |-> {}, prefixes |-> {},
     ips |-> {}]

\* A target prepared for the devices without a rack: the site "None" and
\* role and manufacturer "Server" exist.
PreparedTarget ==
    [EmptyTarget EXCEPT !.sites = {"None"}, !.device_roles = {"Server"},
                        !.manufacturers = {"Server"}]

\* The stages of run_base_migration in order (migrate.py:406-469).
PlStages ==
    <<"tags", "vlan_groups", "vlans", "vms", "sites_racks", "racked",
      "non_racked", "interfaces", "connections", "ip_networks", "ip_allocated",
      "ip_not_allocated">>

\* The stage after pc under IP version IP, as <<pc, IP>>: the three IP
\* stages run for "4", then for "6" (migrate.py:457-466).
NextStage(pc, IP) ==
    LET k == CHOOSE i \in DOMAIN PlStages : PlStages[i] = pc
    IN IF k < Len(PlStages)
       THEN <<PlStages[k + 1], IP>>
       ELSE IF IP = "4" THEN <<"ip_networks", "6">> ELSE <<"done", IP>>

\* The stage ran with exactly the failures of `failed`; its calls are
\* recorded and the next stage is up.
StageDone(r, failed) ==
    /\ FaultedKeys(r.calls) = failed
    /\ netbox' = r.netbox
    /\ pl_calls' = pl_calls \o r.calls
    /\ pl_faults' = pl_faults + Cardinality(failed)
    /\ pl_pc' = NextStage(pl_pc, pl_IP)[1]
    /\ pl_IP' = NextStage(pl_pc, pl_IP)[2]

RunTags ==
    /\ pl_pc = "tags"
    /\ \E failed \in FaultChoices(TagsStage({}).calls) :
           \E r \in {TagsStage(failed)} : StageDone(r, failed)
    /\ UNCHANGED <<pl_run, STORE_DATA, files, global_device_types,
                   global_physical_object_ids, devVars>>
    /\ UNCHANGED notPlVars

RunVlanGroups ==
    /\ pl_pc = "vlan_groups"
    /\ \E failed \in FaultChoices(VlanGroupsStage({}).calls) :
           \E r \in {VlanGroupsStage(failed)} : StageDone(r, failed)
    /\ UNCHANGED <<pl_run, STORE_DATA, files, global_device_types,
                   global_physical_object_ids, devVars>>
    /\ UNCHANGED notPlVars

RunVlans ==
    /\ pl_pc = "vlans"
    /\ \E failed \in FaultChoices(VlansStage({}).calls) :
           \E r \in {VlansStage(failed)} :
               StageDone(r, failed) /\ files' = r.files
    /\ UNCHANGED <<pl_run, STORE_DATA, global_device_types,
                   global_physical_object_ids, devVars>>
    /\ UNCHANGED notPlVars

RunVms ==
    /\ pl_pc = "vms"
    /\ \E failed \in FaultChoices(VmsStage({}).calls) :
           \E r \in {VmsStage(failed)} : StageDone(r, failed)
    /\ UNCHANGED <<pl_run, STORE_DATA, files, global_device_types,
                   global_physical_object_ids, devVars>>
    /\ UNCHANGED notPlVars

RunSitesRacks ==
    /\ pl_pc = "sites_racks"
    /\ \E failed \in FaultChoices(SitesRacksStage({}).calls) :
           \E r \in {SitesRacksStage(failed)} : StageDone(r, failed)
    /\ UNCHANGED <<pl_run, STORE_DATA, files, global_device_types,
                   global_physical_object_ids, devVars>>
    /\ UNCHANGED notPlVars

\* create_racked_devices; an exception outside a try ends the run.
RunRackedDevices ==
    /\ pl_pc = "racked"
    /\ \E failed \in FaultChoices(RackedDevicesStage({}).calls) :
           \E r \in {RackedDevicesStage(failed)} :
              /\ FaultedKeys(r.calls) = failed
              /\ netbox' = r.netbox
              /\ pl_calls' = pl_calls \o r.calls
              /\ pl_faults' = pl_faults + Cardinality(failed)
              /\ pl_pc' = IF r.aborted THEN "aborted" ELSE "non_racked"
              /\ files' = r.files
              /\ global_devices' = r.global_devices
              /\ global_names' = r.global_names
              /\ global_device_types' = r.known.device_types
              /\ global_physical_object_ids' = r.physical
    /\ UNCHANGED <<pl_run, pl_IP, STORE_DATA, nb_devices, dev_calls>>
    /\ UNCHANGED notPlVars

RunNonRackedDevices ==
    /\ pl_pc = "non_racked"
    /\ \E failed \in FaultChoices(NonRackedDevicesStage({}).calls) :
           \E r \in {NonRackedDevicesStage(failed)} :
              /\ StageDone(r, failed)
              /\ files' = r.files
              /\ global_device_types' = r.known
    /\ UNCHANGED <<pl_run, STORE_DATA, global_physical_object_ids, devVars>>
    /\ UNCHANGED notPlVars

RunInterfaces ==
    /\ pl_pc = "interfaces"
    /\ \E failed \in FaultChoices(InterfacesStage({}).calls) :
           \E r \in {InterfacesStage(failed)} :
               StageDone(r, failed) /\ files' = r.files
    /\ UNCHANGED <<pl_run, STORE_DATA, global_device_types,
                   global_physical_object_ids, devVars>>
    /\ UNCHANGED notPlVars

RunInterfaceConnections ==
    /\ pl_pc = "connections"
    /\ \E failed \in FaultChoices(ConnectionsStage({}).calls) :
           \E r \in {ConnectionsStage(failed)} : StageDone(r, failed)
    /\ UNCHANGED <<pl_run, STORE_DATA, files, global_device_types,
                   global_physical_object_ids, devVars>>
    /\ UNCHANGED notPlVars

RunIpNetworks ==
    /\ pl_pc = "ip_networks"
    /\ \E failed \in FaultChoices(IpNetworksStage(pl_IP, {}).calls) :
           \E r \in {IpNetworksStage(pl_IP, failed)} : StageDone(r, failed)
    /\ UNCHANGED <<pl_run, STORE_DATA, files, global_device_types,
                   global_physical_object_ids, devVars>>
    /\ UNCHANGED notPlVars

RunIpAllocated ==
    /\ pl_pc = "ip_allocated"
    /\ \E failed \in FaultChoices(IpAllocatedStage(pl_IP, {}).calls) :
           \E r \in {IpAllocatedStage(pl_IP, failed)} : StageDone(r, failed)
    /\ UNCHANGED <<pl_run, STORE_DATA, files, global_device_types,
                   global_physical_object_ids, devVars>>
    /\ UNCHANGED notPlVars

RunIpNotAllocated ==
    /\ pl_pc = "ip_not_allocated"
    /\ \E failed \in FaultChoices(IpNotAllocatedStage(pl_IP, {}).calls) :
           \E r \in {IpNotAllocatedStage(pl_IP, failed)} : StageDone(r, failed)
    /\ UNCHANGED <<pl_run, STORE_DATA, files, global_device_types,
                   global_physical_object_ids, devVars>>
    /\ UNCHANGED notPlVars

\* The migration is started again: a new process, whose module globals are
\* empty (devices.py:17-26), against the same source, target and files.
NextRun ==
    /\ pl_pc \in {"done", "aborted"}
    /\ pl_run < MaxRuns
    /\ pl_run' = pl_run + 1
    /\ pl_pc' = "tags"
    /\ pl_IP' = "4"
    /\ global_devices' = <<>>
    /\ global_names' = {}
    /\ global_device_types' = {}
    /\ global_physical_object_ids' = {}
    /\ UNCHANGED <<pl_faults, pl_calls, STORE_DATA, files, netbox, nb_devices,
                   dev_calls>>
    /\ UNCHANGED notPlVars

\* No run is in progress.
PipelineIdle ==
    /\ pl_run = 0
    /\ pl_pc = "done"
    /\ pl_IP = "4"
    /\ pl_faults = 0
    /\ pl_calls = <<>>
    /\ STORE_DATA = FALSE
    /\ files = NoFiles
    /\ netbox = EmptyTarget
    /\ global_device_types = {}
    /\ global_physical_object_ids = {}

\* The first run starts: no snapshot file exists; STORE_DATA is the
\* configured value (config.py:42) or the other one.
PipelineStart ==
    /\ pl_run = 1
    /\ pl_pc = "tags"
    /\ pl_IP = "4"
    /\ pl_faults = 0
    /\ pl_calls = <<>>
    /\ STORE_DATA \in BOOLEAN
    /\ files = NoFiles
    /\ netbox \in {EmptyTarget, PreparedTarget}
    /\ global_device_types = {}
    /\ global_physical_object_ids = {}

(***************************************************************************)
(* Extended stages: run_extended_migration                                 *)
(***************************************************************************)

\* Python's None, where a column name is expected.
None == "None"

\* Python's truth value of a column name or None.
Truthy(col) == col # None /\ col # ""

UpperLetters == "ABCDEFGHIJKLMNOPQRSTUVWXYZ"

LowerLetters == "abcdefghijklmnopqrstuvwxyz"

LowerChar(c) ==
    IF \E i \in 1..Len(UpperLetters) : SubSeq(UpperLetters, i, i) = c
    THEN LET i == CHOOSE k \in 1..Len(UpperLetters) : SubSeq(UpperLetters, k, k) = c
         IN SubSeq(LowerLetters, i, i)
    ELSE c

\* str.lower()
RECURSIVE lower(_)
lower(s) ==
    IF s = "" THEN ""
    ELSE LowerChar(SubSeq(s, 1, 1)) \o lower(SubSeq(s, 2, Len(s)))

\* Python's `sub in s` on strings.
Contains(s, sub) ==
    \E i \in 1..(Len(s) - Len(sub) + 1) : SubSeq(s, i, i + Len(sub) - 1) = sub

Least(S) == CHOOSE i \in S : \A j \in S : i <= j

\* The column names the two patch-cable tables may carry.
ColumnPool == {"pctype_name", "name", "label", "id", "Full_Name", "color"}

\* The column lists of a table: at most MaxColumns columns, no name twice.
ColumnLists ==
    UNION {{s \in [1..k -> ColumnPool] :
                \A i \in 1..k : \A j \in 1..k : i # j => s[i] # s[j]} :
           k \in 0..MaxColumns}

\* A column choice that takes the first column named like a name, whatever
\* the preferred candidates are.
get_column_name_NoPreference(table, preferred_columns) ==
    IF table \notin tables THEN None
    ELSE LET cols == columns[table]
             named == {j \in 1..Len(cols) : Contains(lower(cols[j]), "name")}
         IN  IF named # {} THEN cols[Least(named)]
             ELSE IF Len(cols) > 0 THEN cols[1]
             ELSE None

\* patch_cables.py:39-66.  SHOW COLUMNS raises for a table the database
\* does not have, and the except clause answers None.
get_column_name(table, preferred_columns) ==
    IF table \notin tables THEN None
    ELSE LET cols == columns[table]
             present == {i \in 1..Len(preferred_columns) :
                            \E j \in 1..Len(cols) : cols[j] = preferred_columns[i]}
             named == {j \in 1..Len(cols) : Contains(lower(cols[j]), "name")}
         IN  IF present # {} THEN preferred_columns[Least(present)]
             ELSE IF named # {} THEN cols[Least(named)]
             ELSE IF Len(cols) > 0 THEN cols[1]
             ELSE None

ConnectorPreferred == <<"connector_name", "name", "type", "label">>

TypePreferred == <<"pctype_name", "name", "type", "label">>

\* migrate.py:474-499: the extended stages, in the order they are called.
ExtStages ==
    <<"patch_cables", "files", "virtual_services", "nat_mappings",
      "load_balancing", "monitoring">>

ExtNext(stage) ==
    LET i == CHOOSE k \in 1..Len(ExtStages) : ExtStages[k] = stage
    IN  IF i < Len(ExtStages) THEN ExtStages[i + 1] ELSE "done"

\* The stage returns to run_extended_migration, which calls the next one.
ExtReturn(stage, outcome) ==
    /\ ext_pc' = ExtNext(stage)
    /\ ext_log' = Append(ext_log, <<stage, outcome>>)

\* The stage raises: nothing in run_extended_migration or in main's call of
\* it catches, so no later stage is called.
ExtRaise(stage) ==
    /\ ext_pc' = "raised"
    /\ ext_log' = Append(ext_log, <<stage, "raised">>)

\* patch_cables.py:21
required_tables == {"PatchCableConnector", "PatchCableType", "Link", "PatchCableHeap"}

\* migrate_patch_cables, patch_cables.py:12-76: the table probe and the
\* choice of the two name columns.
MigratePatchCables ==
    /\ ext_pc = "patch_cables"
    /\ IF required_tables \ tables # {}
       THEN /\ ExtReturn("patch_cables", "skipped")
            /\ UNCHANGED <<connector_name_col, type_name_col>>
       ELSE /\ connector_name_col' =
                   get_column_name("PatchCableConnector", ConnectorPreferred)
            /\ type_name_col' = get_column_name("PatchCableType", TypePreferred)
            /\ IF ~(Truthy(connector_name_col') /\ Truthy(type_name_col'))
               THEN ExtReturn("patch_cables", "no_column")
               ELSE ExtReturn("patch_cables", "migrated")
    /\ UNCHANGED <<tables, columns>>
    /\ UNCHANGED notExtVars

\* A stage that selects from its table without probing for it
\* (files.py:34, nat.py:26-29, monitoring.py:33): the query raises when the
\* table is absent.
UnprobedStage(stage, table) ==
    /\ ext_pc = stage
    /\ IF table \in tables
       THEN ExtReturn(stage, "migrated")
       ELSE ExtRaise(stage)
    /\ UNCHANGED <<tables, columns, connector_name_col, type_name_col>>
    /\ UNCHANGED notExtVars

\* A stage that probes with SHOW TABLES LIKE and returns when the table is
\* absent (services.py:18-24, load_balancer.py:27-31).
ProbedStage(stage, table) ==
    /\ ext_pc = stage
    /\ IF table \in tables
       THEN ExtReturn(stage, "migrated")
       ELSE ExtReturn(stage, "skipped")
    /\ UNCHANGED <<tables, columns, connector_name_col, type_name_col>>
    /\ UNCHANGED notExtVars

MigrateFiles == UnprobedStage("files", "File")

MigrateVirtualServices == ProbedStage("virtual_services", "VS")

MigrateNatMappings == UnprobedStage("nat_mappings", "IPv4NAT")

MigrateLoadBalancing == ProbedStage("load_balancing", "IPv4LB")

MigrateMonitoring == UnprobedStage("monitoring", "CactiServer")

\* The tables every source database has, and those a version may lack.
CoreTables == {"PatchCableConnector", "Link", "PatchCableHeap"}

OptionalTables == {"PatchCableType", "File", "VS", "IPv4NAT", "IPv4LB", "CactiServer"}

ExtendedIdle ==
    /\ ext_pc = "done"
    /\ tables = CoreTables \cup OptionalTables
    /\ columns = [t \in {"PatchCableConnector", "PatchCableType"} |-> <<>>]
    /\ connector_name_col = None
    /\ type_name_col = None
    /\ ext_log = <<>>

ExtendedStart ==
    /\ ext_pc = "patch_cables"
    /\ \E opt \in SUBSET OptionalTables : tables = CoreTables \cup opt
    /\ \E cc \in {<<"id", "connector_name">>, <<"id", "origin">>, <<>>} :
           \E tc \in ColumnLists :
               columns = [t \in {"PatchCableConnector", "PatchCableType"} |->
                             IF t = "PatchCableType" THEN tc ELSE cc]
    /\ connector_name_col = None
    /\ type_name_col = None
    /\ ext_log = <<>>

(***************************************************************************)
(* The command: main                                                       *)
(***************************************************************************)

\* migrate.py:522-591: the steps of main before the site lookup.  A failed
\* configuration or connection check returns False.
MainSetup ==
    /\ main_pc = "setup"
    /\ TARGET_SITE' = IF args.site # "" THEN args.site ELSE TARGET_SITE
    /\ IF setup_ok
       THEN main_pc' = "associations" /\ UNCHANGED success
       ELSE main_pc' = "exit" /\ success' = FALSE
    /\ UNCHANGED <<args, setup_ok, main_sites, main_tags, site_creatable, NETBOX_SITE_ID,
                   main_calls, exit_code>>
    /\ UNCHANGED notMainVars

\* The id the target gives a site.
SiteId(name) == IF name = "dc1" THEN 1 ELSE 2

\* site_tenant.py:9-83, called at migrate.py:593-595; main drops what it
\* returns.
ensure_site_tenant_associations ==
    /\ main_pc = "associations"
    /\ IF TARGET_SITE = ""
       THEN UNCHANGED <<NETBOX_SITE_ID, main_sites>>
       ELSE IF TARGET_SITE \in main_sites
       THEN NETBOX_SITE_ID' = SiteId(TARGET_SITE) /\ UNCHANGED main_sites
       ELSE IF site_creatable
       THEN /\ main_sites' = main_sites \cup {TARGET_SITE}
            /\ NETBOX_SITE_ID' = SiteId(TARGET_SITE)
       ELSE UNCHANGED <<NETBOX_SITE_ID, main_sites>>
    /\ main_pc' = IF ~args.extended_only THEN "base"
                  ELSE IF ~args.basic_only THEN "extended"
                  ELSE "exit"
    /\ UNCHANGED <<args, setup_ok, main_tags, site_creatable, TARGET_SITE,
                   main_calls, success, exit_code>>
    /\ UNCHANGED notMainVars

\* The create_tag calls of create_global_tags (utils.py:147-171) for a list
\* of tags, given the tags of the target.
RECURSIVE TagCreates(_, _)
TagCreates(tags, global_tags) ==
    IF tags = <<>> THEN <<>>
    ELSE IF Head(tags) \in global_tags
    THEN TagCreates(Tail(tags), global_tags)
    ELSE <<Head(tags)>> \o TagCreates(Tail(tags), global_tags \cup {Head(tags)})

\* migrate.py:597-599: run_base_migration, by its first stage (the tags,
\* migrate.py:409-415) and the entry test of create_sites_and_racks
\* (sites.py:24-28); it returns True.
MainBase ==
    /\ main_pc = "base"
    /\ LET ip_tags == TagCreates(<<"IPv4", "IPv6">>, main_tags)
           tree == TagCreates(TagTree, main_tags \cup {"IPv4", "IPv6"})
           site_stage == IF TARGET_SITE # "" /\ TARGET_SITE \notin main_sites
                         THEN <<>>
                         ELSE <<"racks">>
       IN  /\ main_calls' = main_calls \o ip_tags \o tree \o site_stage
           /\ main_tags' = main_tags \cup {"IPv4", "IPv6"} \cup {TagTree[1]}
    /\ main_pc' = IF ~args.basic_only THEN "extended" ELSE "exit"
    /\ UNCHANGED <<args, setup_ok, main_sites, site_creatable, TARGET_SITE,
                   NETBOX_SITE_ID, success, exit_code>>
    /\ UNCHANGED notMainVars

\* migrate.py:601-603: run_extended_migration returns True.
MainExtended ==
    /\ main_pc = "extended"
    /\ main_calls' = Append(main_calls, "extended")
    /\ main_pc' = "exit"
    /\ UNCHANGED <<args, setup_ok, main_sites, main_tags, site_creatable,
                   TARGET_SITE, NETBOX_SITE_ID, success, exit_code>>
    /\ UNCHANGED notMainVars

\* migrate.py:605-617: sys.exit(0 if success else 1).
MainExit ==
    /\ main_pc = "exit"
    /\ exit_code' = IF success THEN 0 ELSE 1
    /\ main_pc' = "exited"
    /\ UNCHANGED <<args, setup_ok, main_sites, main_tags, site_creatable,
                   TARGET_SITE, NETBOX_SITE_ID, main_calls, success>>
    /\ UNCHANGED notMainVars

MainIdle ==
    /\ main_pc = "exited"
    /\ args = [site |-> "", basic_only |-> FALSE, extended_only |-> FALSE]
    /\ setup_ok = TRUE
    /\ main_sites = {}
    /\ main_tags = {}
    /\ site_creatable = TRUE
    /\ TARGET_SITE = ""
    /\ NETBOX_SITE_ID = 0
    /\ main_calls = <<>>
    /\ success = TRUE
    /\ exit_code = 0

MainStart ==
    /\ main_pc = "setup"
    /\ args \in [site : {"", "dc1", "dc2"}, basic_only : BOOLEAN,
                 extended_only : BOOLEAN]
    /\ setup_ok \in BOOLEAN
    /\ main_sites \in SUBSET {"dc1"}
    /\ main_tags \in SUBSET {"IPv4", "IPv6", "prod"}
    /\ site_creatable \in BOOLEAN
    /\ TARGET_SITE = ""
    /\ NETBOX_SITE_ID = 0
    /\ main_calls = <<>>
    /\ success = TRUE
    /\ exit_code = -1

(***************************************************************************)
(* create_interfaces, port by port                                         *)
(***************************************************************************)

\* The tuples (device_name, racktables_id, netbox_id, objtype_id) the device
\* stages may have collected (devices.py:312-314).  Object 1 occupies
\* positions in two racks: create_device_at_location made it the devices
\* sw1 and sw1.1.
DeviceTuples == {<<"sw1", 1, 1, 8>>, <<"sw1.1", 1, 2, 8>>, <<"sw2", 2, 3, 8>>}

\* The lists of distinct tuples, in any order (the tuples are kept in a set).
DeviceLists ==
    UNION {{s \in [1..k -> DeviceTuples] :
                \A i \in 1..k : \A j \in 1..k : i # j => s[i] # s[j]} :
           k \in 0..Cardinality(DeviceTuples)}

\* The ports of a device tuple (interfaces.py:116-122).
PortsOf(dev) == SelectSeq(PlPorts, LAMBDA port : port.object_id = dev[2])

\* interfaces.py:130-174: one port of the first device of the list.
InterfaceStep ==
    /\ iface_pc = "walk"
    /\ iface_devices # <<>>
    /\ port_index <= Len(PortsOf(Head(iface_devices)))
    /\ LET dev == Head(iface_devices)
           port == PortsOf(dev)[port_index]
           st == [netbox |-> iface_target, known |-> iface_known,
                  connection_ids |-> iface_connection_ids, calls |-> <<>>]
       IN  \E failed \in SUBSET CallKeys(InterfacePort(st, dev, port, {}).calls) :
              \E r \in {InterfacePort(st, dev, port, failed)} :
                 /\ FaultedKeys(r.calls) = failed
                 /\ iface_faults + Cardinality(failed) <= MaxFailedCreates
                 /\ iface_faults' = iface_faults + Cardinality(failed)
                 /\ iface_target' = r.netbox
                 /\ iface_known' = r.known
                 /\ iface_connection_ids' = r.connection_ids
    /\ port_index' = port_index + 1
    /\ UNCHANGED <<iface_pc, iface_devices, iface_tracked>>
    /\ UNCHANGED notIfaceVars

\* interfaces.py:114: the ports of the device are done, the next device is up.
InterfaceNextDevice ==
    /\ iface_pc = "walk"
    /\ iface_devices # <<>>
    /\ port_index > Len(PortsOf(Head(iface_devices)))
    /\ iface_devices' = Tail(iface_devices)
    /\ port_index' = 1
    /\ UNCHANGED <<iface_pc, iface_tracked, iface_connection_ids, iface_target,
                   iface_known, iface_faults>>
    /\ UNCHANGED notIfaceVars

\* interfaces.py:176-178: the loop is over.
InterfacesEnd ==
    /\ iface_pc = "walk"
    /\ iface_devices = <<>>
    /\ iface_pc' = "done"
    /\ UNCHANGED <<iface_devices, iface_tracked, port_index, iface_connection_ids,
                   iface_target, iface_known, iface_faults>>
    /\ UNCHANGED notIfaceVars

InterfacesIdle ==
    /\ iface_pc = "done"
    /\ iface_devices = <<>>
    /\ iface_tracked = <<>>
    /\ port_index = 1
    /\ iface_connection_ids = NoConnectionIds
    /\ iface_target = [devices |-> {}, interfaces |-> {}]
    /\ iface_known = {}
    /\ iface_faults = 0

InterfacesStart ==
    /\ iface_pc = "walk"
    /\ iface_devices \in DeviceLists
    /\ iface_tracked = iface_devices
    /\ port_index = 1
    /\ iface_connection_ids = NoConnectionIds
    /\ \E present \in {{}, {[id |-> 1, device_id |-> 1, name |-> "Ethernet0"]},
                       {[id |-> 1, device_id |-> 3, name |-> "Ethernet0"]}} :
          /\ iface_target = [devices |-> {[id |-> d[3], name |-> d[1]] : d \in DeviceTuples},
                             interfaces |-> present]
          /\ iface_known = present
    /\ iface_faults = 0

(***************************************************************************)
(* The stages from Cables on, against a target that holds the interfaces   *)
(***************************************************************************)

\* A target on which an earlier migration stored the switches sw1 and sw2 of
\* rack DC1.A.R1 and their interfaces Ethernet0.
ResumedTarget ==
    LET at(height) == [face |-> "front", start_height |-> height,
                       device_role |-> "Network switch",
                       manufacturer |-> "Network switch",
                       device_type_model |-> "Network switch-1U",
                       site_name |-> "DC1", rack_name |-> "DC1.A.R1"]
    IN  [EmptyTarget EXCEPT
            !.sites = {"DC1"},
            !.racks = {[id |-> 1, name |-> "DC1.A.R1", site |-> "DC1"]},
            !.device_roles = {"Network switch"},
            !.manufacturers = {"Network switch"},
            !.device_types = {"Network switch-1U"},
            !.devices = {NewDevice(1, "sw1", at(10)), NewDevice(2, "sw2", at(20))},
            !.interfaces = {[id |-> 1, device_id |-> 1, name |-> "Ethernet0"],
                            [id |-> 2, device_id |-> 2, name |-> "Ethernet0"]}]

\* The file connection_ids as create_interfaces left it for that target.
KeptSnapshot ==
    [NoFiles EXCEPT !["connection_ids"] =
        [exists |-> TRUE, data |-> [NoConnectionIds EXCEPT ![11] = 1, ![21] = 2]]]

\* create_interface_connections is up (migrate.py:452-454) in a new process;
\* the target may already hold the cable of the Link row, and the snapshot
\* of the port mapping may be there or not.
ResumeStart ==
    /\ pl_run = 1
    /\ pl_pc = "connections"
    /\ pl_IP = "4"
    /\ pl_faults = 0
    /\ pl_calls = <<>>
    /\ STORE_DATA \in BOOLEAN
    /\ files \in {NoFiles, KeptSnapshot}
    /\ netbox \in {ResumedTarget, [ResumedTarget EXCEPT !.cables = {[a |-> 1, b |-> 2]}]}
    /\ global_device_types = {}
    /\ global_physical_object_ids = {}

(***************************************************************************)
(* create_non_racked_devices, object by object                             *)
(***************************************************************************)

\* Table Object, the rows without rack space: the server srv1, the server
\* blade1, the server chassis chassis1 and the virtual machine guest1;
\* table EntityLink makes object 5 the parent of object 4.
ChildObjects ==
    <<[id |-> 3, name |-> "srv1", objtype_id |-> 4, parent_entity_id |-> 0],
      [id |-> 4, name |-> "blade1", objtype_id |-> 4, parent_entity_id |-> 5],
      [id |-> 5, name |-> "chassis1", objtype_id |-> 1502, parent_entity_id |-> 0],
      [id |-> 6, name |-> "guest1", objtype_id |-> 1504, parent_entity_id |-> 0]>>

\* config.py:72-107: of OBJTYPE_ID_NAMES, the types that have objects, in
\* the order of the dict; devices.py:331 walks every key of the dict.
ChildTypeOrder == <<4, 1502, 1504>>

\* devices.py:334-341: the objects of a type.
ObjectsOfType(objtype_id) ==
    SelectSeq(ChildObjects,
              LAMBDA o : o.id \in child_source /\ o.objtype_id = objtype_id)

\* devices.py:398-428 with PARENT_CHILD_OBJTYPE_ID_PAIRS (config.py:125-128):
\* the name of the parent of a child object, "" when the object is no child.
ChildParentName(obj) ==
    LET parents == {p \in 1..Len(ChildObjects) :
                       /\ ChildObjects[p].id = obj.parent_entity_id
                       /\ ChildObjects[p].id \in child_source
                       /\ <<ChildObjects[p].objtype_id, obj.objtype_id>>
                             \in {<<1502, 4>>, <<9, 9>>}}
    IN  IF parents = {} THEN "" ELSE ChildObjects[CHOOSE p \in parents : TRUE].name

ChildLog(obj, created, failed) ==
    [name |-> obj.name, pass |-> child_pass,
     is_child |-> ChildParentName(obj) # "",
     parent_in_target |-> ChildParentName(obj) \in child_devices,
     created |-> created, failed |-> failed]

\* devices.py:382-513: one tuple of the running call.
ParentChildDevice ==
    /\ child_pc = "walk"
    /\ child_data # <<>>
    /\ LET obj == Head(child_data)
           parent == ChildParentName(obj)
       IN  IF obj.name \in child_existing_names
           THEN /\ child_log' = Append(child_log, ChildLog(obj, FALSE, FALSE))
                /\ UNCHANGED <<not_created_parents, child_devices, child_bays,
                               child_faults>>
           ELSE \E ok \in BOOLEAN :
                   /\ ~ok => child_faults < MaxFailedCreates
                   /\ ok => obj.name \notin child_devices
                   /\ IF ok
                      THEN /\ child_devices' = child_devices \cup {obj.name}
                           /\ child_bays' =
                                 IF parent # "" /\ parent \in child_devices
                                 THEN child_bays \cup {<<parent, obj.name>>}
                                 ELSE child_bays
                           /\ child_log' = Append(child_log, ChildLog(obj, TRUE, FALSE))
                           /\ UNCHANGED <<not_created_parents, child_faults>>
                      ELSE /\ not_created_parents' = Append(not_created_parents, obj)
                           /\ child_faults' = child_faults + 1
                           /\ child_log' = Append(child_log, ChildLog(obj, FALSE, TRUE))
                           /\ UNCHANGED <<child_devices, child_bays>>
    /\ child_data' = Tail(child_data)
    /\ UNCHANGED <<child_pc, child_source, child_types, child_pass,
                   child_existing_names>>
    /\ UNCHANGED notChildVars

\* devices.py:515 and 343-348: the call returns its list; after the first
\* call of a type a non-empty list is passed to a second call, whose own
\* list is dropped; then the next type is up.
ParentChildReturn ==
    /\ child_pc = "walk"
    /\ child_data = <<>>
    /\ IF child_pass = 1 /\ not_created_parents # <<>>
       THEN /\ child_pass' = 2
            /\ child_data' = not_created_parents
            /\ UNCHANGED <<child_pc, child_types>>
       ELSE IF Len(child_types) > 1
       THEN /\ child_pass' = 1
            /\ child_types' = Tail(child_types)
            /\ child_data' = ObjectsOfType(child_types[2])
            /\ UNCHANGED child_pc
       ELSE /\ child_pc' = "done"
            /\ child_types' = <<>>
            /\ UNCHANGED <<child_pass, child_data>>
    /\ not_created_parents' = <<>>
    /\ child_existing_names' = child_devices
    /\ UNCHANGED <<child_source, child_devices, child_bays, child_faults, child_log>>
    /\ UNCHANGED notChildVars

ChildrenIdle ==
    /\ child_pc = "done"
    /\ child_source = {}
    /\ child_types = <<>>
    /\ child_pass = 1
    /\ child_data = <<>>
    /\ not_created_parents = <<>>
    /\ child_existing_names = {}
    /\ child_devices = {}
    /\ child_bays = {}
    /\ child_faults = 0
    /\ child_log = <<>>

ChildrenStart ==
    /\ child_pc = "walk"
    /\ child_source \in SUBSET {3, 4, 5, 6}
    /\ child_types = ChildTypeOrder
    /\ child_pass = 1
    /\ child_data = ObjectsOfType(ChildTypeOrder[1])
    /\ not_created_parents = <<>>
    /\ child_devices \in SUBSET {"chassis1", "srv1"}
    /\ child_existing_names = child_devices
    /\ child_bays = {}
    /\ child_faults = 0
    /\ child_log = <<>>

(***************************************************************************)
(* Gap analysis, run after run: create_available_subnets, then             *)
(* create_ip_ranges                                                        *)
(*                                                                         *)
(* The target lists its prefixes ordered by family, network address and    *)
(* mask length.  It stores a range address given without a mask as a host  *)
(* address and returns it with the mask.                                   *)
(***************************************************************************)

\* Prefixes the target may hold before the first run: 10.0.0.0/24,
\* 10.0.0.0/26, 10.0.0.128/25, 10.0.0.192/26, 2001:db8::/100,
\* 2001:db8::1:0/112.
RangePrefixPool == {n \in PrefixPool : ~TooSmall(n)}

\* Addresses the target may hold: 10.0.0.70, 10.0.0.200, 2001:db8::5.
RangeAddressPool ==
    {[v |-> "4", ip |-> 167772230], [v |-> "4", ip |-> 167772360],
     [v |-> "6", ip |-> 5]}

\* list(netbox.ipam.get_ip_prefixes()), ip_ranges.py:165.
RECURSIVE get_ip_prefixes(_)
get_ip_prefixes(nets) ==
    IF nets = {}
    THEN <<>>
    ELSE LET first == CHOOSE x \in nets : \A y \in nets :
                         \/ x.v = "4" /\ y.v = "6"
                         \/ x.v = y.v /\ x.ip < y.ip
                         \/ x.v = y.v /\ x.ip = y.ip /\ x.len <= y.len
         IN <<first>> \o get_ip_prefixes(nets \ {first})

\* ip_ranges.py:224-251: the index of the first prefix of the list that has
\* another string, a shorter mask and contains the network; 0 when none.
FirstContainer(prefix_net, prefixes) ==
    LET found == {i \in 1..Len(prefixes) :
                     /\ prefixes[i] # prefix_net
                     /\ prefixes[i].len < prefix_net.len
                     /\ subnet_of(prefix_net, prefixes[i])}
    IN IF found = {} THEN 0 ELSE Least(found)

\* ip_ranges.py:203-256: for every prefix of the list, the index of the parent
\* it is grouped under; 0 for a prefix that is skipped or has no parent.
ParentIndex(prefixes) ==
    [i \in 1..Len(prefixes) |->
        IF TooSmall(prefixes[i]) THEN 0 ELSE FirstContainer(prefixes[i], prefixes)]

\* network_groups[parent]: the children appended to it, in list order.
RangeChildren(at, prefixes, parent_index) ==
    LET RECURSIVE collect(_)
        collect(i) ==
            IF i > Len(prefixes)
            THEN <<>>
            ELSE (IF parent_index[i] = at THEN <<prefixes[i]>> ELSE <<>>) \o collect(i + 1)
    IN collect(1)

\* The keys of network_groups, in the order of their insertion, as indexes
\* of the list.
RangeParents(prefixes, parent_index) ==
    LET RECURSIVE keys(_, _)
        keys(i, seen) ==
            IF i > Len(prefixes)
            THEN <<>>
            ELSE IF parent_index[i] = 0 \/ parent_index[i] \in seen
                 THEN keys(i + 1, seen)
                 ELSE <<parent_index[i]>> \o keys(i + 1, seen \cup {parent_index[i]})
    IN keys(1, {})

\* ip_ranges.py:253-254.
standalone_prefixes(prefixes, parent_index) ==
    LET RECURSIVE collect(_)
        collect(i) ==
            IF i > Len(prefixes)
            THEN <<>>
            ELSE (IF ~TooSmall(prefixes[i]) /\ parent_index[i] = 0
                  THEN <<prefixes[i]>>
                  ELSE <<>>) \o collect(i + 1)
    IN collect(1)

\* child_prefixes.sort(key=get_network_addr), ip_ranges.py:284: a stable sort.
RECURSIVE SortChildren(_)
SortChildren(child_prefixes) ==
    IF child_prefixes = <<>>
    THEN <<>>
    ELSE LET least == Least({child_prefixes[i].ip : i \in 1..Len(child_prefixes)})
             at == Least({i \in 1..Len(child_prefixes) : child_prefixes[i].ip = least})
         IN <<child_prefixes[at]>>
                \o SortChildren(SubSeq(child_prefixes, 1, at - 1)
                                   \o SubSeq(child_prefixes, at + 1, Len(child_prefixes)))

\* range_cidr = f"{start_ip}-{end_ip}", ip_ranges.py:305.
range_cidr(v, start_ip, end_ip) == IpString(v, start_ip) \o "-" \o IpString(v, end_ip)

\* A range proposed by create_ip_ranges and the prefix it was computed in.
ProposedRange(network, start_ip, end_ip, description) ==
    [v |-> network.v, in |-> network, start |-> start_ip, end |-> end_ip,
     range_cidr |-> range_cidr(network.v, start_ip, end_ip),
     description |-> description]

\* ip_ranges.py:287-353: the gaps between the children of a parent and after
\* the last of them; prev_end is -1 for None.
RECURSIVE ParentGaps(_, _, _, _)
ParentGaps(parent, child_prefixes, i, last_end) ==
    IF i > Len(child_prefixes)
    THEN IF last_end # -1 /\ last_end < broadcast_address(parent)
         THEN <<ProposedRange(parent, last_end + 1, broadcast_address(parent),
                              "End gap IP range")>>
         ELSE <<>>
    ELSE LET current == child_prefixes[i]
             current_start == current.ip
         IN (IF last_end # -1 /\ current_start > last_end + 1
             THEN <<ProposedRange(parent, last_end + 1, current_start - 1,
                                  "Gap IP range")>>
             ELSE <<>>)
                \o ParentGaps(parent, child_prefixes, i + 1, broadcast_address(current))

\* contained_addresses.sort(), ip_ranges.py:412.
RECURSIVE SortAddresses(_)
SortAddresses(addresses) ==
    IF addresses = {}
    THEN <<>>
    ELSE <<Least(addresses)>> \o SortAddresses(addresses \ {Least(addresses)})

\* ip_ranges.py:439-464.
RECURSIVE MiddleGaps(_, _, _)
MiddleGaps(network, contained_addresses, i) ==
    IF i > Len(contained_addresses) - 1
    THEN <<>>
    ELSE LET curr_addr == contained_addresses[i]
             next_addr == contained_addresses[i + 1]
         IN (IF next_addr > curr_addr + 1
             THEN <<ProposedRange(network, curr_addr + 1, next_addr - 1,
                                  "Middle gap IP range")>>
             ELSE <<>>)
                \o MiddleGaps(network, contained_addresses, i + 1)

\* ip_ranges.py:366-488: the ranges proposed for one standalone prefix.
StandaloneRanges(network, ip_addresses) ==
    LET contained_addresses ==
            SortAddresses({a.ip : a \in {b \in ip_addresses :
                              /\ b.v = network.v
                              /\ network.ip <= b.ip
                              /\ b.ip <= broadcast_address(network)}})
        last == Len(contained_addresses)
    IN IF contained_addresses = <<>>
       THEN <<ProposedRange(network, network.ip, broadcast_address(network),
                            "Empty prefix IP range")>>
       ELSE (IF contained_addresses[1] > network.ip
             THEN <<ProposedRange(network, network.ip, contained_addresses[1] - 1,
                                  "Beginning gap IP range")>>
             ELSE <<>>)
                \o MiddleGaps(network, contained_addresses, 1)
                \o (IF contained_addresses[last] < broadcast_address(network)
                    THEN <<ProposedRange(network, contained_addresses[last] + 1,
                                         broadcast_address(network), "End gap IP range")>>
                    ELSE <<>>)

\* ip_ranges.py:279-491: every range proposed, in the order of the code.
RECURSIVE GroupRanges(_, _, _, _)
GroupRanges(parents, prefixes, parent_index, i) ==
    IF i > Len(parents)
    THEN <<>>
    ELSE ParentGaps(prefixes[parents[i]],
                    SortChildren(RangeChildren(parents[i], prefixes, parent_index)), 1, -1)
            \o GroupRanges(parents, prefixes, parent_index, i + 1)

RECURSIVE StandaloneAll(_, _, _)
StandaloneAll(standalone, ip_addresses, i) ==
    IF i > Len(standalone)
    THEN <<>>
    ELSE StandaloneRanges(standalone[i], ip_addresses)
            \o StandaloneAll(standalone, ip_addresses, i + 1)

ProposedRanges(prefixes, ip_addresses) ==
    LET parent_index == ParentIndex(prefixes)
    IN GroupRanges(RangeParents(prefixes, parent_index), prefixes, parent_index, 1)
           \o StandaloneAll(standalone_prefixes(prefixes, parent_index), ip_addresses, 1)

\* What the target stores for create_ip_range(start_address, end_address).
StoredRange(r) ==
    [start_address |-> IpString(r.v, r.start) \o HostMask(r.v),
     end_address |-> IpString(r.v, r.end) \o HostMask(r.v),
     v |-> r.v, start |-> r.start, end |-> r.end]

\* The strings of the existing ranges, had the mask been left on them.
existing_range_cidrs_WithMask(existing_ranges) ==
    {r.start_address \o "-" \o r.end_address : r \in existing_ranges}

\* ip_ranges.py:173-195.
existing_range_cidrs(existing_ranges) ==
    {AddressPart(r.start_address) \o "-" \o AddressPart(r.end_address) :
        r \in existing_ranges}

\* ip_ranges.py:306-322 and its five copies: the create calls issued for the
\* proposed ranges; a call for a range of failed raises.
RECURSIVE RangeCreates(_, _, _, _)
RangeCreates(proposed, i, known, failed) ==
    IF i > Len(proposed)
    THEN <<>>
    ELSE IF proposed[i].range_cidr \in known
         THEN RangeCreates(proposed, i + 1, known, failed)
         ELSE LET ok == proposed[i].range_cidr \notin failed
              IN <<[range |-> proposed[i], ok |-> ok]>>
                     \o RangeCreates(proposed, i + 1,
                                     IF ok THEN known \cup {proposed[i].range_cidr}
                                           ELSE known,
                                     failed)

\* available_subnets.py:238-324: the subnets proposed within one parent.
RECURSIVE ParentSubnets(_, _, _, _)
ParentSubnets(parent, child_prefixes, i, from) ==
    IF i > Len(child_prefixes)
    THEN IF from < broadcast_address(parent) THEN EndGapSubnets(parent, from) ELSE {}
    ELSE (IF child_prefixes[i].ip > from
          THEN GapSubnets(parent, from, child_prefixes[i].ip)
          ELSE {})
            \cup ParentSubnets(parent, child_prefixes, i + 1,
                               broadcast_address(child_prefixes[i]) + 1)

\* available_subnets.py:151-324: every subnet proposed.
AvailableSubnets(existing) ==
    LET groups == NetworkGroups(existing)
    IN UNION {ParentSubnets(q, groups[q], 1, q.ip) : q \in DOMAIN groups}

\* Which create call of a stage may raise: none, or one of them.
RangeMayFail(S) ==
    {{}} \cup (IF rg_faults < MaxFailedCreates THEN {{s} : s \in S} ELSE {})

\* A create call of the gap analysis, as kept in the history.
RangeCall(kind, name, r, ok) ==
    [run |-> rg_run, kind |-> kind, name |-> name, v |-> r.v, in |-> r.in,
     start |-> r.start, end |-> r.end, ok |-> ok]

\* The generation of the gap analysis is over: the next run, or the end.
RangeStageEnd(last_stage) ==
    IF ~last_stage
    THEN rg_pc' = "ranges" /\ rg_run' = rg_run
    ELSE IF rg_run < MaxRuns
         THEN rg_pc' = "subnets" /\ rg_run' = rg_run + 1
         ELSE rg_pc' = "done" /\ rg_run' = rg_run

\* available_subnets.py:138-330.
create_available_subnets ==
    /\ rg_pc = "subnets"
    /\ LET subnets == AvailableSubnets(rg_prefixes)
       IN \E failed \in RangeMayFail(subnets) :
             /\ rg_prefixes' = rg_prefixes \cup (subnets \ failed)
             /\ rg_calls' = rg_calls \cup
                    {RangeCall("prefix", PrefixString(subnet),
                               [v |-> subnet.v, in |-> subnet, start |-> subnet.ip,
                                end |-> broadcast_address(subnet)],
                               subnet \notin failed) : subnet \in subnets}
             /\ rg_faults' = rg_faults + Cardinality(failed)
    /\ RangeStageEnd(FALSE)
    /\ UNCHANGED <<rg_addresses, rg_ranges>>
    /\ UNCHANGED notRangeVars

\* ip_ranges.py:152-493.
create_ip_ranges ==
    /\ rg_pc = "ranges"
    /\ \E proposed \in {ProposedRanges(get_ip_prefixes(rg_prefixes), rg_addresses)} :
       \E known \in {existing_range_cidrs(rg_ranges)} :
       \E failed \in RangeMayFail({proposed[i].range_cidr : i \in 1..Len(proposed)}
                                     \ known) :
       \E calls \in {RangeCreates(proposed, 1, known, failed)} :
          /\ rg_ranges' = rg_ranges \cup
                 {StoredRange(calls[i].range) : i \in {j \in 1..Len(calls) : calls[j].ok}}
          /\ rg_calls' = rg_calls \cup
                 {RangeCall("range", calls[i].range.range_cidr, calls[i].range,
                            calls[i].ok) : i \in 1..Len(calls)}
          /\ rg_faults' = rg_faults + Cardinality(failed)
    /\ RangeStageEnd(TRUE)
    /\ UNCHANGED <<rg_prefixes, rg_addresses>>
    /\ UNCHANGED notRangeVars

\* The idle state of the gap analysis runs.
RangesIdle ==
    /\ rg_pc = "done"
    /\ rg_run = 0
    /\ rg_prefixes = {}
    /\ rg_addresses = {}
    /\ rg_ranges = {}
    /\ rg_calls = {}
    /\ rg_faults = 0

\* The first run starts against a target that holds some prefixes and
\* addresses and no range.
RangesStart ==
    /\ rg_pc = "subnets"
    /\ rg_run = 1
    /\ rg_prefixes \in SUBSET RangePrefixPool
    /\ rg_addresses \in SUBSET RangeAddressPool
    /\ rg_ranges = {}
    /\ rg_calls = {}
    /\ rg_faults = 0

(***************************************************************************)
(* Racks, then the devices in them: create_rows_and_racks and              *)
(* create_racked_devices, rack by rack                                     *)
(*                                                                         *)
(* A rack of the source is a row of table Object; its id is drawn from     *)
(* RackObjectIds.  The target numbers the racks it stores 1, 2, ...        *)
(***************************************************************************)

RackObjectIds == {1, 2, 3, 7}

\* getRacksAtRow for row "A" of site "DC1": the racks R1 and R2 under any
\* two ids.
RackRows ==
    {<<[id |-> a, name |-> "R1"], [id |-> b, name |-> "R2"]>> :
        <<a, b>> \in {p \in RackObjectIds \X RackObjectIds : p[1] # p[2]}}

\* Table RackSpace: the first rack of the row holds object 11 (swA), the
\* second holds object 12 (swB).
RackSpace(rows) ==
    {[rack_id |-> rows[1].id, object_id |-> 11, name |-> "swA"],
     [rack_id |-> rows[2].id, object_id |-> 12, name |-> "swB"]}

\* db.py:86-99.
getAtomsAtRack(rackId) == {atom \in RackSpace(rk_rows) : atom.rack_id = rackId}

\* sites.py:85-116: one rack of the row; create_rack may raise.
RackCreate ==
    /\ rk_pc = "racks"
    /\ rk_next <= Len(rk_rows)
    /\ LET rack_name == RackName("DC1", "A", rk_rows[rk_next].name)
           rack == [id |-> Cardinality(rk_racks) + 1, name |-> rack_name,
                    site |-> "DC1", source_id |-> rk_rows[rk_next].id]
       IN \E api_ok \in BOOLEAN :
             /\ ~api_ok => rk_faults < MaxFailedCreates
             /\ rk_racks' = IF api_ok THEN rk_racks \cup {rack} ELSE rk_racks
             /\ rk_faults' = IF api_ok THEN rk_faults ELSE rk_faults + 1
    /\ rk_next' = rk_next + 1
    /\ UNCHANGED <<rk_pc, rk_rows, rk_devices>>
    /\ UNCHANGED notRackVars

\* The racks are created; create_racked_devices reads the racks of the
\* target (devices.py:186).
RacksCreated ==
    /\ rk_pc = "racks"
    /\ rk_next > Len(rk_rows)
    /\ rk_pc' = "devices"
    /\ rk_next' = 1
    /\ UNCHANGED <<rk_rows, rk_racks, rk_devices, rk_faults>>
    /\ UNCHANGED notRackVars

\* devices.py:189-206: one rack of the target; a device is created for every
\* object of the atoms found (devices.py:211-314), unless the call raises.
RackedRack ==
    /\ rk_pc = "devices"
    /\ rk_next <= Cardinality(rk_racks)
    /\ LET rack == CHOOSE r \in rk_racks : r.id = rk_next
           rack_id == rack.id
           atoms == getAtomsAtRack(rack_id)
       IN \E failed \in SUBSET atoms :
             /\ rk_faults + Cardinality(failed) <= MaxFailedCreates
             /\ rk_devices' = rk_devices \cup
                    {[name |-> atom.name, object_id |-> atom.object_id,
                      rack |-> rack.id, rack_name |-> rack.name] :
                        atom \in atoms \ failed}
             /\ rk_faults' = rk_faults + Cardinality(failed)
    /\ rk_next' = rk_next + 1
    /\ UNCHANGED <<rk_pc, rk_rows, rk_racks>>
    /\ UNCHANGED notRackVars

\* devices.py:208-209: the loop is over.
RackedDevicesEnd ==
    /\ rk_pc = "devices"
    /\ rk_next > Cardinality(rk_racks)
    /\ rk_pc' = "done"
    /\ UNCHANGED <<rk_next, rk_rows, rk_racks, rk_devices, rk_faults>>
    /\ UNCHANGED notRackVars

RacksIdle ==
    /\ rk_pc = "done"
    /\ rk_next = 1
    /\ rk_rows = <<>>
    /\ rk_racks = {}
    /\ rk_devices = {}
    /\ rk_faults = 0

\* The target holds no rack yet.
RacksStart ==
    /\ rk_pc = "racks"
    /\ rk_next = 1
    /\ rk_rows \in RackRows
    /\ rk_racks = {}
    /\ rk_devices = {}
    /\ rk_faults = 0

(***************************************************************************)
(* Virtual machines: create_vms, cluster by cluster and VM by VM           *)
(*                                                                         *)
(* The sets existing_cluster_types, existing_cluster_names and             *)
(* existing_virtual_machines start as the names the target holds and grow  *)
(* with every create call that returns, so they are the target's names.    *)
(***************************************************************************)

\* Table Object: a VM cluster (objtype 1505), a server (objtype 4) and three
\* VMs (objtype 1504), one of them without a name.
VmObjects ==
    <<[id |-> 50, name |-> "cl1", objtype_id |-> 1505],
      [id |-> 60, name |-> "srv1", objtype_id |-> 4],
      [id |-> 1, name |-> "vm1", objtype_id |-> 1504],
      [id |-> 2, name |-> "vm2", objtype_id |-> 1504],
      [id |-> 3, name |-> "", objtype_id |-> 1504]>>

VmIds == {1, 2, 3}

\* Table EntityLink: a VM is contained in the cluster, in the server, or in
\* nothing (parent 0).
VmParents == [VmIds -> {0, 50, 60}]

\* vms.py:93.
SourceClusters == SelectSeq(VmObjects, LAMBDA o : o.objtype_id = 1505)

\* vms.py:125-129: the children of a cluster, as Object rows.
ChildrenOfCluster(cluster_id) ==
    SelectSeq(VmObjects, LAMBDA o : o.id \in VmIds /\ vm_parent[o.id] = cluster_id)

\* vms.py:230-231.
SourceVms == SelectSeq(VmObjects, LAMBDA o : o.objtype_id = 1504)

\* vms.py:234-241: the VMs that are the child of any object.
mounted_vm_ids == {i \in VmIds : vm_parent[i] # 0}

existing_virtual_machines == {m.name : m \in vm_machines}

\* A name is created when it is not known yet; the call may raise.
\* vms.py:100-122 and 202-224.
EnsureCluster(cluster_name, type_ok, cluster_ok) ==
    /\ vm_cluster_types' =
           IF cluster_name \notin vm_cluster_types /\ type_ok
           THEN vm_cluster_types \cup {cluster_name}
           ELSE vm_cluster_types
    /\ vm_cluster_names' =
           IF cluster_name \notin vm_cluster_names /\ cluster_ok
           THEN vm_cluster_names \cup {cluster_name}
           ELSE vm_cluster_names
    /\ vm_faults' = vm_faults
           + (IF cluster_name \notin vm_cluster_types /\ ~type_ok THEN 1 ELSE 0)
           + (IF cluster_name \notin vm_cluster_names /\ ~cluster_ok THEN 1 ELSE 0)
    /\ vm_faults' <= MaxFailedCreates

\* vms.py:164-181 and 266-285: create_virtual_machine; the target refuses a
\* VM in a cluster it does not hold.
CreateVm(vm_name, cluster_name, api_ok) ==
    /\ vm_machines' =
           IF api_ok /\ cluster_name \in vm_cluster_names
           THEN vm_machines \cup {[name |-> vm_name, cluster |-> cluster_name]}
           ELSE vm_machines
    /\ vm_faults' = IF api_ok THEN vm_faults ELSE vm_faults + 1
    /\ vm_faults' <= MaxFailedCreates

\* vms.py:96-129: the next cluster of the source.
MountedCluster ==
    /\ vm_pc = "mounted"
    /\ vm_todo = <<>>
    /\ vm_cluster <= Len(SourceClusters)
    /\ LET row == SourceClusters[vm_cluster]
       IN /\ \E type_ok \in BOOLEAN : \E cluster_ok \in BOOLEAN :
                EnsureCluster(row.name, type_ok, cluster_ok)
          /\ vm_todo' = ChildrenOfCluster(row.id)
    /\ vm_cluster' = vm_cluster + 1
    /\ UNCHANGED <<vm_pc, vm_parent, vm_machines>>
    /\ UNCHANGED notVmVars

\* vms.py:131-181: one child of the cluster.
MountedVm ==
    /\ vm_pc = "mounted"
    /\ vm_todo # <<>>
    /\ LET vm_row == Head(vm_todo)
           cluster_name == SourceClusters[vm_cluster - 1].name
       IN IF vm_row.objtype_id # 1504 \/ vm_row.name = ""
             \/ vm_row.name \in existing_virtual_machines
          THEN UNCHANGED <<vm_machines, vm_faults>>
          ELSE \E api_ok \in BOOLEAN : CreateVm(vm_row.name, cluster_name, api_ok)
    /\ vm_todo' = Tail(vm_todo)
    /\ UNCHANGED <<vm_pc, vm_parent, vm_cluster, vm_cluster_types, vm_cluster_names>>
    /\ UNCHANGED notVmVars

\* vms.py:199-241: create_mounted_vms has returned; the cluster for the
\* VMs without one, and the list of all VMs.
UnmountedCluster ==
    /\ vm_pc = "mounted"
    /\ vm_todo = <<>>
    /\ vm_cluster > Len(SourceClusters)
    /\ \E type_ok \in BOOLEAN : \E cluster_ok \in BOOLEAN :
          EnsureCluster("Unmounted Cluster", type_ok, cluster_ok)
    /\ vm_todo' = SourceVms
    /\ vm_pc' = "unmounted"
    /\ UNCHANGED <<vm_parent, vm_cluster, vm_machines>>
    /\ UNCHANGED notVmVars

\* vms.py:245-285: one VM of the list.
UnmountedVm ==
    /\ vm_pc = "unmounted"
    /\ vm_todo # <<>>
    /\ LET vm == Head(vm_todo)
       IN IF vm.id \in mounted_vm_ids \/ vm.name = ""
             \/ vm.name \in existing_virtual_machines
          THEN UNCHANGED <<vm_machines, vm_faults>>
          ELSE \E api_ok \in BOOLEAN : CreateVm(vm.name, "Unmounted Cluster", api_ok)
    /\ vm_todo' = Tail(vm_todo)
    /\ UNCHANGED <<vm_pc, vm_parent, vm_cluster, vm_cluster_types, vm_cluster_names>>
    /\ UNCHANGED notVmVars

\* create_vms returns.
VmsEnd ==
    /\ vm_pc = "unmounted"
    /\ vm_todo = <<>>
    /\ vm_pc' = "done"
    /\ UNCHANGED <<vm_parent, vm_cluster, vm_todo, vm_cluster_types, vm_cluster_names,
                   vm_machines, vm_faults>>
    /\ UNCHANGED notVmVars

VmsIdle ==
    /\ vm_pc = "done"
    /\ vm_parent = <<>>
    /\ vm_cluster = 1
    /\ vm_todo = <<>>
    /\ vm_cluster_types = {}
    /\ vm_cluster_names = {}
    /\ vm_machines = {}
    /\ vm_faults = 0

\* create_vms is entered with both flags set, against a target that holds
\* no VM; an earlier run may have left the cluster for the VMs without one.
VmsStart ==
    /\ vm_pc = "mounted"
    /\ vm_parent \in VmParents
    /\ vm_cluster = 1
    /\ vm_todo = <<>>
    /\ vm_cluster_types \in {{}, {"Unmounted Cluster"}}
    /\ vm_cluster_names = vm_cluster_types
    /\ vm_machines = {}
    /\ vm_faults = 0

(***************************************************************************)
(* Prefix status: determine_prefix_status                                  *)
(***************************************************************************)

\* Names and comments of the rows of IPv4Network / IPv6Network.  None and
\* "" behave alike in every test of the function and are both written "".
PrefixNamePool ==
    {"", "  ", "Office LAN", "RESERVED", "old Hold", "Parent of unused",
     "Free used", "Inactive", "In Use", "[Here be dragons]"}

PrefixCommentPool ==
    {"", " ", "future", "Obsolete supernet", "production", "unallocated"}

\* netbox_status.py:96 and 114: the four standard statuses.
StandardStatuses == <<"active", "container", "reserved", "deprecated">>

\* What get_valid_status_choices may return for a target.
ValidStatusLists ==
    {StandardStatuses, <<"container", "reserved">>, <<"active", "deprecated">>}

\* s.strip() == ""
IsBlank(s) == \A i \in 1..Len(s) : SubSeq(s, i, i) \in {" ", "\t", "\n", "\r"}

\* netbox_status.py:128-152: the keyword families in the order they are
\* tested, each with the status it stands for.
StatusFamilies ==
    <<[terms |-> {"reserved", "hold", "future", "planned"}, status |-> "reserved"],
      [terms |-> {"deprecated", "obsolete", "old", "inactive", "decommissioned"},
       status |-> "deprecated"],
      [terms |-> {"container", "parent", "supernet", "aggregate"},
       status |-> "container"],
      [terms |-> {"available", "unused", "free", "[here be dragons",
                  "[create network here]", "unallocated"},
       status |-> "container"],
      [terms |-> {"in use", "used", "active", "production", "allocated"},
       status |-> "active"]>>

\* any(term in lower_name or term in lower_comment for term in [...])
AnyTerm(terms, lower_name, lower_comment) ==
    \E term \in terms : Contains(lower_name, term) \/ Contains(lower_comment, term)

InList(x, list) == \E i \in 1..Len(list) : list[i] = x

\* The if-chain with the family of the active keywords tested before the
\* family of the available keywords.
RECURSIVE StatusChainActiveFirst(_, _, _, _, _)
StatusChainActiveFirst(order, lower_name, lower_comment, valid_statuses, default_status) ==
    IF order = <<>>
    THEN default_status
    ELSE LET family == StatusFamilies[Head(order)]
         IN IF AnyTerm(family.terms, lower_name, lower_comment)
            THEN IF InList(family.status, valid_statuses)
                 THEN family.status ELSE default_status
            ELSE StatusChainActiveFirst(Tail(order), lower_name, lower_comment,
                                        valid_statuses, default_status)

determine_prefix_status_ActiveFirst(prefix_name, comment, valid_statuses) ==
    LET default_status == IF InList("active", valid_statuses)
                          THEN "active" ELSE valid_statuses[1]
    IN IF IsBlank(prefix_name) /\ IsBlank(comment)
       THEN IF InList("reserved", valid_statuses) THEN "reserved" ELSE default_status
       ELSE StatusChainActiveFirst(<<1, 2, 3, 5, 4>>, lower(prefix_name),
                                   lower(comment), valid_statuses, default_status)

\* netbox_status.py:128-156: the chain of tests from family i on.
RECURSIVE StatusChain(_, _, _, _, _)
StatusChain(i, lower_name, lower_comment, valid_statuses, default_status) ==
    IF i > Len(StatusFamilies)
    THEN default_status
    ELSE IF AnyTerm(StatusFamilies[i].terms, lower_name, lower_comment)
    THEN IF InList(StatusFamilies[i].status, valid_statuses)
         THEN StatusFamilies[i].status ELSE default_status
    ELSE StatusChain(i + 1, lower_name, lower_comment, valid_statuses, default_status)

\* netbox_status.py:101-156.
determine_prefix_status(prefix_name, comment, valid_statuses) ==
    LET default_status == IF InList("active", valid_statuses)
                          THEN "active" ELSE valid_statuses[1]
    IN IF IsBlank(prefix_name) /\ IsBlank(comment)
       THEN IF InList("reserved", valid_statuses) THEN "reserved" ELSE default_status
       ELSE StatusChain(1, lower(prefix_name), lower(comment),
                        valid_statuses, default_status)

\* ips.py:78: create_ip_networks asks for the status of a network row.
DeterminePrefixStatus ==
    /\ st_pc = "call"
    /\ st_pc' = "returned"
    /\ st_status' = determine_prefix_status(st_name, st_comment, st_valid)
    /\ UNCHANGED <<st_name, st_comment, st_valid>>
    /\ UNCHANGED notStatusVars

StatusIdle ==
    /\ st_pc = "returned"
    /\ st_name = ""
    /\ st_comment = ""
    /\ st_valid = StandardStatuses
    /\ st_status = ""

StatusStart ==
    /\ st_pc = "call"
    /\ st_name \in PrefixNamePool
    /\ st_comment \in PrefixCommentPool
    /\ st_valid \in ValidStatusLists
    /\ st_status = ""

(***************************************************************************)
(* run_base_migration under the stage flags                                *)
(*                                                                         *)
(* Only the control flow is followed here: every call of a stage function  *)
(* is a start and an end in the history, and what the stage does to the    *)
(* target is the matter of the other specifications.  A stage function     *)
(* that raises ends run_base_migration, which has no try of its own.       *)
(* TARGET_SITE is not set.                                                 *)
(***************************************************************************)

\* config.py:9-21.
StageFlags ==
    {"CREATE_VLAN_GROUPS", "CREATE_VLANS", "CREATE_MOUNTED_VMS",
     "CREATE_UNMOUNTED_VMS", "CREATE_RACKED_DEVICES", "CREATE_NON_RACKED_DEVICES",
     "CREATE_INTERFACES", "CREATE_INTERFACE_CONNECTIONS", "CREATE_IPV4",
     "CREATE_IPV6", "CREATE_IP_NETWORKS", "CREATE_IP_ALLOCATED",
     "CREATE_IP_NOT_ALLOCATED"}

\* migrate.py:457-466: the calls of the loop over the IP versions.
IpCalls(IP) ==
    <<[name |-> "create_ip_networks", IP |-> IP, flags |-> {"CREATE_IP_NETWORKS"}],
      [name |-> "create_ip_allocated", IP |-> IP, flags |-> {"CREATE_IP_ALLOCATED"}],
      [name |-> "create_ip_not_allocated", IP |-> IP,
       flags |-> {"CREATE_IP_NOT_ALLOCATED"}]>>

\* The statements of run_base_migration before the IP block, with the
\* connection call placed before the interface call.
BaseCallsCablesFirst ==
    <<[name |-> "create_global_tags", IP |-> "", flags |-> StageFlags],
      [name |-> "create_vlan_groups", IP |-> "", flags |-> {"CREATE_VLAN_GROUPS"}],
      [name |-> "create_vlans", IP |-> "", flags |-> {"CREATE_VLANS"}],
      [name |-> "create_vms", IP |-> "",
       flags |-> {"CREATE_MOUNTED_VMS", "CREATE_UNMOUNTED_VMS"}],
      [name |-> "create_sites_and_racks", IP |-> "", flags |-> {"CREATE_RACKED_DEVICES"}],
      [name |-> "create_racked_devices", IP |-> "", flags |-> {"CREATE_RACKED_DEVICES"}],
      [name |-> "create_non_racked_devices", IP |-> "",
       flags |-> {"CREATE_NON_RACKED_DEVICES"}],
      [name |-> "create_interface_connections", IP |-> "",
       flags |-> {"CREATE_INTERFACE_CONNECTIONS"}],
      [name |-> "create_interfaces", IP |-> "", flags |-> {"CREATE_INTERFACES"}]>>

\* migrate.py:406-445: the calls of run_base_migration before the IP block,
\* in the order of the statements, each with the flags one of which must be
\* True for the call to be made; the tags are created whatever the flags.
BaseCalls ==
    <<[name |-> "create_global_tags", IP |-> "", flags |-> StageFlags],
      [name |-> "create_vlan_groups", IP |-> "", flags |-> {"CREATE_VLAN_GROUPS"}],
      [name |-> "create_vlans", IP |-> "", flags |-> {"CREATE_VLANS"}],
      [name |-> "create_vms", IP |-> "",
       flags |-> {"CREATE_MOUNTED_VMS", "CREATE_UNMOUNTED_VMS"}],
      [name |-> "create_sites_and_racks", IP |-> "", flags |-> {"CREATE_RACKED_DEVICES"}],
      [name |-> "create_racked_devices", IP |-> "", flags |-> {"CREATE_RACKED_DEVICES"}],
      [name |-> "create_non_racked_devices", IP |-> "",
       flags |-> {"CREATE_NON_RACKED_DEVICES"}],
      [name |-> "create_interfaces", IP |-> "", flags |-> {"CREATE_INTERFACES"}],
      [name |-> "create_interface_connections", IP |-> "",
       flags |-> {"CREATE_INTERFACE_CONNECTIONS"}]>>

\* migrate.py:447-466: the calls run_base_migration makes under a set of
\* flags, in order.
CallList(flags) ==
    LET always(c) == c.name = "create_global_tags"
        enabled(c) == always(c) \/ c.flags \cap flags # {}
        versions == (IF "CREATE_IPV4" \in flags THEN <<"4">> ELSE <<>>)
                       \o (IF "CREATE_IPV6" \in flags THEN <<"6">> ELSE <<>>)
        ip_calls == IF Len(versions) = 0 THEN <<>>
                    ELSE IF Len(versions) = 1 THEN IpCalls(versions[1])
                    ELSE IpCalls(versions[1]) \o IpCalls(versions[2])
    IN SelectSeq(BaseCalls \o ip_calls, enabled)

\* Table Object, objtype_id 1562: the locations (sites.py:36-37).
FlagSites == <<"DC1", "DC2">>

\* An entry of the history: the function, its IP version or its site, and
\* "start" or "end".
FlagEvent(name, arg, ev) == [name |-> name, arg |-> arg, ev |-> ev]

FlagCall == CallList(fl_flags)[fl_next]

\* A stage function is called.
CallStart ==
    /\ fl_pc = "between"
    /\ fl_next <= Len(CallList(fl_flags))
    /\ fl_pc' = "in"
    /\ fl_site' = 1
    /\ fl_trace' = Append(fl_trace, FlagEvent(FlagCall.name, FlagCall.IP, "start"))
    /\ UNCHANGED <<fl_flags, fl_next>>
    /\ UNCHANGED notFlagVars

\* sites.py:39-71, one site of the loop of create_sites_and_racks.  The
\* site is in the target or is created, and create_rows_and_racks is called
\* for it; or its create fails and the loop continues with the next site.
\* No name is longer than SITE_NAME_LENGTH_THRESHOLD.
SiteAndRacks ==
    /\ fl_pc = "in"
    /\ FlagCall.name = "create_sites_and_racks"
    /\ fl_site <= Len(FlagSites)
    /\ \E outcome \in {"existing", "created", "failed"} :
          LET site_name == FlagSites[fl_site]
              create == IF outcome \in {"created", "failed"}
                        THEN <<FlagEvent("create_site", site_name, "start"),
                               FlagEvent("create_site", site_name, "end")>>
                        ELSE <<>>
              racks == IF outcome \in {"existing", "created"}
                       THEN <<FlagEvent("create_rows_and_racks", site_name, "start"),
                              FlagEvent("create_rows_and_racks", site_name, "end")>>
                       ELSE <<>>
          IN fl_trace' = fl_trace \o create \o racks
    /\ fl_site' = fl_site + 1
    /\ UNCHANGED <<fl_flags, fl_pc, fl_next>>
    /\ UNCHANGED notFlagVars

\* The stage function returns and the next statement is up.
CallReturn ==
    /\ fl_pc = "in"
    /\ FlagCall.name = "create_sites_and_racks" => fl_site > Len(FlagSites)
    /\ fl_pc' = "between"
    /\ fl_next' = fl_next + 1
    /\ fl_trace' = Append(fl_trace, FlagEvent(FlagCall.name, FlagCall.IP, "end"))
    /\ UNCHANGED <<fl_flags, fl_site>>
    /\ UNCHANGED notFlagVars

\* The stage function raises; the exception leaves run_base_migration.
CallRaise ==
    /\ fl_pc = "in"
    /\ fl_pc' = "raised"
    /\ fl_trace' = Append(fl_trace, FlagEvent(FlagCall.name, FlagCall.IP, "end"))
    /\ UNCHANGED <<fl_flags, fl_next, fl_site>>
    /\ UNCHANGED notFlagVars

\* migrate.py:468-469: "Base migration completed successfully!", return True.
BaseReturn ==
    /\ fl_pc = "between"
    /\ fl_next > Len(CallList(fl_flags))
    /\ fl_pc' = "done"
    /\ UNCHANGED <<fl_flags, fl_next, fl_site, fl_trace>>
    /\ UNCHANGED notFlagVars

FlagsIdle ==
    /\ fl_flags = {}
    /\ fl_pc = "done"
    /\ fl_next = 1
    /\ fl_site = 1
    /\ fl_trace = <<>>

FlagsStart ==
    /\ fl_flags \in SUBSET StageFlags
    /\ fl_pc = "between"
    /\ fl_next = 1
    /\ fl_site = 1
    /\ fl_trace = <<>>

(***************************************************************************)
(* Specifications                                                          *)
(***************************************************************************)

InitDevices == DevicesStart /\ VlansStart /\ IpsIdle /\ GapsIdle /\ PipelineIdle /\ ExtendedIdle /\ MainIdle /\ InterfacesIdle /\ ChildrenIdle /\ RangesIdle /\ RacksIdle /\ VmsIdle /\ StatusIdle /\ FlagsIdle

NextDevices == DeviceStep

SpecDevices == InitDevices /\ [][NextDevices]_vars

InitVlans == VlansStart /\ DevicesStart /\ IpsIdle /\ GapsIdle /\ PipelineIdle /\ ExtendedIdle /\ MainIdle /\ InterfacesIdle /\ ChildrenIdle /\ RangesIdle /\ RacksIdle /\ VmsIdle /\ StatusIdle /\ FlagsIdle

NextVlans == VlanRow \/ VlanNextTable \/ VlanReturn

SpecVlans == InitVlans /\ [][NextVlans]_vars

InitIps == IpsStart /\ DevicesStart /\ VlansStart /\ GapsIdle /\ PipelineIdle /\ ExtendedIdle /\ MainIdle /\ InterfacesIdle /\ ChildrenIdle /\ RangesIdle /\ RacksIdle /\ VmsIdle /\ StatusIdle /\ FlagsIdle

NextIps == IpNetworkRow \/ IpAllocatedRow \/ IpNotAllocatedRow \/ IpNextStage

SpecIps == InitIps /\ [][NextIps]_vars

InitGaps == GapsStart /\ DevicesStart /\ VlansStart /\ IpsIdle /\ PipelineIdle /\ ExtendedIdle /\ MainIdle /\ InterfacesIdle /\ ChildrenIdle /\ RangesIdle /\ RacksIdle /\ VmsIdle /\ StatusIdle /\ FlagsIdle

NextGaps == GapAnalyse \/ GapChild \/ GapEnd

SpecGaps == InitGaps /\ [][NextGaps]_vars

Init == PipelineStart /\ DevicesStart /\ VlansStart /\ IpsIdle /\ GapsIdle /\ ExtendedIdle /\ MainIdle /\ InterfacesIdle /\ ChildrenIdle /\ RangesIdle /\ RacksIdle /\ VmsIdle /\ StatusIdle /\ FlagsIdle

Next ==
    \/ RunTags
    \/ RunVlanGroups
    \/ RunVlans
    \/ RunVms
    \/ RunSitesRacks
    \/ RunRackedDevices
    \/ RunNonRackedDevices
    \/ RunInterfaces
    \/ RunInterfaceConnections
    \/ RunIpNetworks
    \/ RunIpAllocated
    \/ RunIpNotAllocated
    \/ NextRun

Spec == Init /\ [][Next]_vars

InitExtended == ExtendedStart /\ DevicesStart /\ VlansStart /\ IpsIdle /\ GapsIdle /\ PipelineIdle /\ MainIdle /\ InterfacesIdle /\ ChildrenIdle /\ RangesIdle /\ RacksIdle /\ VmsIdle /\ StatusIdle /\ FlagsIdle

NextExtended ==
    \/ MigratePatchCables
    \/ MigrateFiles
    \/ MigrateVirtualServices
    \/ MigrateNatMappings
    \/ MigrateLoadBalancing
    \/ MigrateMonitoring

SpecExtended == InitExtended /\ [][NextExtended]_vars

InitMain == MainStart /\ DevicesStart /\ VlansStart /\ IpsIdle /\ GapsIdle /\ PipelineIdle /\ ExtendedIdle /\ InterfacesIdle /\ ChildrenIdle /\ RangesIdle /\ RacksIdle /\ VmsIdle /\ StatusIdle /\ FlagsIdle

NextMain ==
    \/ MainSetup
    \/ ensure_site_tenant_associations
    \/ MainBase
    \/ MainExtended
    \/ MainExit

SpecMain == InitMain /\ [][NextMain]_vars

InitInterfaces == InterfacesStart /\ DevicesStart /\ VlansStart /\ IpsIdle /\ GapsIdle /\ PipelineIdle /\ ExtendedIdle /\ MainIdle /\ ChildrenIdle /\ RangesIdle /\ RacksIdle /\ VmsIdle /\ StatusIdle /\ FlagsIdle

NextInterfaces ==
    \/ InterfaceStep
    \/ InterfaceNextDevice
    \/ InterfacesEnd

SpecInterfaces == InitInterfaces /\ [][NextInterfaces]_vars

InitResume == ResumeStart /\ DevicesStart /\ VlansStart /\ IpsIdle /\ GapsIdle /\ ExtendedIdle /\ MainIdle /\ InterfacesIdle /\ ChildrenIdle /\ RangesIdle /\ RacksIdle /\ VmsIdle /\ StatusIdle /\ FlagsIdle

SpecResume == InitResume /\ [][Next]_vars

InitChildren == ChildrenStart /\ DevicesStart /\ VlansStart /\ IpsIdle /\ GapsIdle /\ PipelineIdle /\ ExtendedIdle /\ MainIdle /\ InterfacesIdle /\ RangesIdle /\ RacksIdle /\ VmsIdle /\ StatusIdle /\ FlagsIdle

NextChildren ==
    \/ ParentChildDevice
    \/ ParentChildReturn

SpecChildren == InitChildren /\ [][NextChildren]_vars

InitRanges == RangesStart /\ DevicesStart /\ VlansStart /\ IpsIdle /\ GapsIdle /\ PipelineIdle /\ ExtendedIdle /\ MainIdle /\ InterfacesIdle /\ ChildrenIdle /\ RacksIdle /\ VmsIdle /\ StatusIdle /\ FlagsIdle

NextRanges ==
    \/ create_available_subnets
    \/ create_ip_ranges

SpecRanges == InitRanges /\ [][NextRanges]_vars

InitRacks == RacksStart /\ DevicesStart /\ VlansStart /\ IpsIdle /\ GapsIdle /\ PipelineIdle /\ ExtendedIdle /\ MainIdle /\ InterfacesIdle /\ ChildrenIdle /\ RangesIdle /\ VmsIdle /\ StatusIdle /\ FlagsIdle

NextRacks ==
    \/ RackCreate
    \/ RacksCreated
    \/ RackedRack
    \/ RackedDevicesEnd

SpecRacks == InitRacks /\ [][NextRacks]_vars

InitVms == VmsStart /\ DevicesStart /\ VlansStart /\ IpsIdle /\ GapsIdle /\ PipelineIdle /\ ExtendedIdle /\ MainIdle /\ InterfacesIdle /\ ChildrenIdle /\ RangesIdle /\ RacksIdle /\ StatusIdle /\ FlagsIdle

NextVms ==
    \/ MountedCluster
    \/ MountedVm
    \/ UnmountedCluster
    \/ UnmountedVm
    \/ VmsEnd

SpecVms == InitVms /\ [][NextVms]_vars

InitStatus == StatusStart /\ DevicesStart /\ VlansStart /\ IpsIdle /\ GapsIdle /\ PipelineIdle /\ ExtendedIdle /\ MainIdle /\ InterfacesIdle /\ ChildrenIdle /\ RangesIdle /\ RacksIdle /\ VmsIdle /\ FlagsIdle

NextStatus ==
    \/ DeterminePrefixStatus

SpecStatus == InitStatus /\ [][NextStatus]_vars


InitFlags == FlagsStart /\ DevicesStart /\ VlansStart /\ IpsIdle /\ GapsIdle /\ PipelineIdle /\ ExtendedIdle /\ MainIdle /\ InterfacesIdle /\ ChildrenIdle /\ RangesIdle /\ RacksIdle /\ VmsIdle /\ StatusIdle

NextFlags ==
    \/ CallStart
    \/ SiteAndRacks
    \/ CallReturn
    \/ CallRaise
    \/ BaseReturn

SpecFlags == InitFlags /\ [][NextFlags]_vars


(***************************************************************************)
(* Claims about create_device_at_location                                  *)
(***************************************************************************)

DeviceTuple(device) ==
    <<device.face.value, device.position, device.device_role.name,
      device.device_type.manufacturer.name, device.device_type.model,
      device.site.name, device.rack.name>>

LocationTuple(loc) ==
    <<loc.face, loc.start_height, loc.device_role, loc.manufacturer,
      loc.device_type_model, loc.site_name, loc.rack_name>>

\* The call met an already created device of its name at another tuple.
NameCollides(c) ==
    \E i \in 1..c.ndevices_before :
        /\ global_devices[i].name = c.device_name
        /\ DeviceTuple(global_devices[i]) # LocationTuple(c.loc)

\* No already created device has the call's tuple.
LocationFree(c) ==
    \A i \in 1..c.ndevices_before :
        DeviceTuple(global_devices[i]) # LocationTuple(c.loc)

\* The call issued a create under the first free suffixed name.
FirstFreeSuffixIssued(c) ==
    \E n \in 1..(MaxDeviceCalls + 1) :
        /\ c.create_name = c.device_name \o "." \o ToString(n)
        /\ c.create_name \notin c.names_before
        /\ \A m \in 1..(n - 1) :
               (c.device_name \o "." \o ToString(m)) \in c.names_before

\* C4 as claimed: whenever a source device has the name of an already created
\* device and a tuple different from that device's, a create is issued for it
\* under the first free suffix.
C4_AsClaimed ==
    \A j \in DOMAIN dev_calls :
        NameCollides(dev_calls[j]) => FirstFreeSuffixIssued(dev_calls[j])

\* C4 (amended): when a source device has the name of an already created
\* device and its tuple differs from the tuple of every device created so far,
\* a create is issued under the first free suffix "<name>.1", ".2", ...; an
\* accepted create is a new device, and no two created devices share a name.
C4_NameCollisionSuffix ==
    /\ \A j \in DOMAIN dev_calls :
          LET c == dev_calls[j] IN
          (NameCollides(c) /\ LocationFree(c)) =>
              /\ FirstFreeSuffixIssued(c)
              /\ c.created =>
                    /\ c.ret_name = c.create_name
                    /\ \A i \in 1..c.ndevices_before :
                          global_devices[i].id # c.ret_id
    /\ \A i, k \in DOMAIN global_devices :
          i # k => /\ global_devices[i].name # global_devices[k].name
                   /\ global_devices[i].id # global_devices[k].id

\* Three devices named "sw1" at three tuples: "sw1", "sw1.1" and "sw1.2".
C4_Witness ==
    \E j, k \in DOMAIN dev_calls :
        /\ NameCollides(dev_calls[j]) /\ LocationFree(dev_calls[j])
        /\ dev_calls[j].created /\ dev_calls[j].create_name = "sw1.1"
        /\ dev_calls[j].device_name = "sw1"
        /\ NameCollides(dev_calls[k]) /\ LocationFree(dev_calls[k])
        /\ dev_calls[k].created /\ dev_calls[k].create_name = "sw1.2"
        /\ dev_calls[k].device_name = "sw1"

VlanNameAsSpecified(c) ==
    IF c.vlan_name \notin c.nb_names_before
    THEN c.create_name = c.vlan_name
    ELSE \E n \in 1..(MaxVlanRows + 1) :
            /\ c.create_name = c.vlan_name \o "-" \o ToString(n)
            /\ c.create_name \notin c.nb_names_before
            /\ \A m \in 1..(n - 1) :
                   (c.vlan_name \o "-" \o ToString(m)) \in c.nb_names_before

\* C6: within one VLAN group the names of the VLANs created in a run are
\* pairwise distinct; a source VLAN whose name X is taken in its group is
\* created as X-1 (X-2 when X-1 is taken, and so on), so two source VLANs
\* called X give X and X-1.
C6_VlanNamesUnique ==
    /\ \A v, w \in nb_vlans :
          (v.id # w.id /\ v.group = w.group) => v.name # w.name
    /\ vlan_last.created => VlanNameAsSpecified(vlan_last)
    /\ (vlan_last.created /\ vlan_last.nb_names_before = {vlan_last.vlan_name})
          => vlan_last.create_name = vlan_last.vlan_name \o "-1"
    /\ (vlan_last.created /\ vlan_last.nb_names_before
                                = {vlan_last.vlan_name, vlan_last.vlan_name \o "-1"})
          => vlan_last.create_name = vlan_last.vlan_name \o "-2"

\* Three source VLANs of group "office" called "X" became X, X-1 and X-2.
C6_Witness ==
    /\ \E u, v, w \in nb_vlans :
          /\ u.group = "office" /\ v.group = "office" /\ w.group = "office"
          /\ u.vid = 10 /\ v.vid = 20 /\ w.vid = 30
          /\ {u.name, v.name, w.name} = {"X", "X-1", "X-2"}
    /\ vlan_last.created /\ vlan_last.create_name = "X-2"

\* The successful create_vlan calls of the run before this row that were
\* issued for a row of another network: the map still holds their ids.
VlansOfOtherNetworks(net_id) ==
    {v \in nb_vlans :
        \E m \in VlanNetIds \ {net_id} :
            /\ network_id_group_name_id[m] # <<>>
            /\ network_id_group_name_id[m][3] = v.id}

\* C26, as the specification states it: for a source VLAN (domain_id,
\* vlan_id) at most one create_vlan call is issued in a run, also when the
\* VLAN is bound to several networks.
C26_AsClaimed ==
    [][(vlan_rows' = vlan_rows + 1 /\ vlan_last'.create_name # "")
          => \A v \in VlansOfOtherNetworks(vlan_last'.net_id) :
                ~(v.group = vlan_last'.group /\ v.vid = vlan_last'.vlan_id)]_vars

\* ips.py:36-37 and 66-72: the id of the VLAN create_ip_networks attaches to
\* the prefix of the network row with an id, 0 for None.  The lookup is the
\* same for IP = "4" and IP = "6"; tables IPv4Network and IPv6Network number
\* their rows independently, so both have rows with the ids of VlanNetIds.
PrefixVlanId(map, Id) ==
    IF Id \in DOMAIN map /\ map[Id] # <<>> THEN map[Id][3] ELSE 0

\* C27, as the specification states it: the VLAN attached to the prefix of
\* an IPv4 network is the one VLANIPv4 binds to it; a row of VLANIPv6 with
\* the same network id neither adds nor replaces it.  Stated for the first
\* row of VLANIPv6, before which only rows of VLANIPv4 have written the map.
C27_AsClaimed ==
    [][(vlan_last.IP # "6" /\ vlan_last'.IP = "6")
          => \A n \in VlanNetIds :
                PrefixVlanId(network_id_group_name_id', n)
                   = PrefixVlanId(network_id_group_name_id, n)]_vars


(***************************************************************************)
(* Claims about the IP stages                                              *)
(***************************************************************************)

\* The prefix strings of the source's host-route rows.
HostPrefixes ==
    {IPv4String(n.ip) \o "/32" : n \in {m \in NetworkRows("4") : m.mask = 32}}
        \cup {IPv6String(n.ip) \o "/128" : n \in {m \in NetworkRows("6") : m.mask = 128}}

\* C2: for a network row with IPv4 mask 32 or IPv6 mask 128 the prefix stage
\* issues no prefix create and no such prefix is stored; the address stages
\* decide by their own conditions only, so an address whose value was skipped
\* as a host route is created like any other address.
C2_HostRouteExclusion ==
    /\ (/\ ip_last.stage = "networks"
        /\ \/ (ip_last.IP = "4" /\ ip_last.mask = 32)
           \/ (ip_last.IP = "6" /\ ip_last.mask = 128))
          => (~ip_last.prefix_create /\ ip_last.skipped)
    /\ nb_prefixes \cap HostPrefixes = {}
    /\ (ip_last.stage = "not_allocated" /\ <<ip_last.IP, ip_last.ip>> \in host_routes)
          => /\ ip_last.skipped = ip_last.existing_match
             /\ (ip_last.creates # <<>>) = ~ip_last.existing_match
    /\ (ip_last.stage = "allocated" /\ <<ip_last.IP, ip_last.ip>> \in host_routes)
          => ip_last.skipped =
                (ip_last.device_name = ""
                    \/ (ip_last.existing_match /\ ip_last.ip_type # "shared"))

\* Host routes of both IP versions were skipped, the IPv4 address of one is
\* stored and the IPv6 address of the other has just been created.
C2_Witness ==
    /\ host_routes = {<<"4", 167772165>>, <<"6", 5>>}
    /\ ip_last.stage = "not_allocated" /\ ip_last.string_ip = "2001:db8::5"
    /\ ip_last.creates # <<>> /\ ip_last.creates[1].ok
    /\ \E a \in nb_ips : a.address = "2001:db8::5/128"

\* C7 as stated: a non-shared allocation whose literal address the target
\* already holds (from before the stage or created earlier in the stage) gets
\* no address create.
C7_AsClaimed ==
    (/\ ip_last.stage = "allocated"
     /\ ip_last.ip_type = "regular"
     /\ ip_last.in_target)
        => ip_last.creates = <<>>

\* C8: a shared allocation is never skipped because its address exists; every
\* create it issues carries the role vrrp, at most one of them succeeds, and
\* when one succeeds the address is stored on the interface of that name of
\* the owning device.
C8_SharedIp ==
    (/\ ip_last.stage = "allocated"
     /\ ip_last.ip_type = "shared"
     /\ ip_last.device_name # "")
        => /\ ~ip_last.skipped
           /\ \A k \in DOMAIN ip_last.creates : ip_last.creates[k].role = "vrrp"
           /\ Cardinality({k \in DOMAIN ip_last.creates : ip_last.creates[k].ok}) <= 1
           /\ TargetDeviceId(ip_last.device_name) = 0 => ip_last.creates = <<>>
           /\ (\E k \in DOMAIN ip_last.creates : ip_last.creates[k].ok)
                 => \E a \in nb_ips, i \in nb_interfaces :
                       /\ a.address = ip_last.string_ip \o HostMask(ip_last.IP)
                       /\ a.role = "vrrp"
                       /\ a.interface_id = i.id
                       /\ i.device = ip_last.device_name
                       /\ i.name = ip_last.interface_name

\* The shared address 10.0.0.5, already in the target before the stage, is
\* stored with role vrrp on interfaces of two different devices.
C8_Witness ==
    /\ ip_last.stage = "allocated" /\ ip_last.ip_type = "shared"
    /\ ip_last.existing_match /\ ip_last.in_target
    /\ \E a, b \in nb_ips, i, j \in nb_interfaces :
          /\ a.address = "10.0.0.5/32" /\ b.address = "10.0.0.5/32"
          /\ a.role = "vrrp" /\ b.role = "vrrp"
          /\ a.interface_id = i.id /\ b.interface_id = j.id
          /\ i.device = "sw1" /\ j.device = "sw2"


(***************************************************************************)
(* Claims about create_available_subnets                                   *)
(***************************************************************************)

Overlaps(a, b) ==
    a.v = b.v /\ a.ip <= broadcast_address(b) /\ b.ip <= broadcast_address(a)

\* The prefixes of the target strictly inside a prefix.
PrefixesInside(p) == {c \in gap_existing : c # p /\ subnet_of(c, p)}

\* The first addresses of the free intervals of p that follow a child.
GapStartsAfterChild(p) ==
    {s \in {broadcast_address(c) + 1 : c \in PrefixesInside(p)} :
        /\ s <= broadcast_address(p)
        /\ \A c \in PrefixesInside(p) : ~(c.ip <= s /\ s <= broadcast_address(c))}

\* The last address of the free interval of p that starts at s.
GapLast(p, s) ==
    LET stops == {c.ip : c \in {d \in PrefixesInside(p) : d.ip > s}}
                    \cup {broadcast_address(p) + 1}
    IN (CHOOSE x \in stops : \A y \in stops : x <= y) - 1

\* A candidate-length subnet fits between s and last.
CandidateFits(p, s, last) ==
    \E l \in {m \in PrefixSizes(p.v) : m > p.len} :
        LET n == NumAddresses(p.v, l)
            first == ((s + n - 1) \div n) * n
        IN first + n - 1 <= last

\* C9 as stated: when the analysis has ended and no create call failed, every
\* free interval that follows a child of a parent prefix (between two
\* children, or between the last child and the end of the parent) and has
\* room for a candidate-length subnet holds at least one created subnet.
C9_AsClaimed ==
    (gap_pc = "done" /\ FailedCalls = {})
        => \A p \in gap_existing : \A s \in GapStartsAfterChild(p) :
              CandidateFits(p, s, GapLast(p, s))
                 => \E c \in gap_calls :
                       /\ c.subnet.v = p.v
                       /\ s <= c.subnet.ip
                       /\ broadcast_address(c.subnet) <= GapLast(p, s)

\* C10 as stated: every created prefix lies inside its parent and overlaps no
\* prefix the target already held inside that parent.
C10_AsClaimed ==
    \A c \in gap_calls :
        c.ok => /\ subnet_of(c.subnet, c.parent)
                /\ \A e \in PrefixesInside(c.parent) : ~Overlaps(c.subnet, e)

\* The prefixes of the target that strictly contain a prefix.
StrictContainers(n) == {q \in gap_existing : q # n /\ subnet_of(n, q)}

\* The parents under which the analysis has filed a prefix.
ParentsOf(n) ==
    {q \in DOMAIN network_groups :
        \E k \in DOMAIN network_groups[q] : network_groups[q][k] = n}

\* C20, as the specification states it: once the prefixes are grouped, every
\* analysed prefix that some prefix strictly contains is the child of exactly
\* one parent, the strictly containing prefix of the longest prefix length.
C20_AsClaimed ==
    gap_pc # "start" =>
        \A n \in gap_existing :
            (~TooSmall(n) /\ StrictContainers(n) # {}) =>
                \E q \in StrictContainers(n) :
                    /\ ParentsOf(n) = {q}
                    /\ \A r \in StrictContainers(n) : r.len <= q.len


(***************************************************************************)
(* Claims about run_base_migration                                         *)
(***************************************************************************)

\* The entity kinds of the idempotence contract.
EntityKinds ==
    {"site", "rack", "device", "interface", "cable", "vlan_group", "vlan",
     "cluster", "vm", "prefix", "address", "tag"}

\* C1, as stated: when the pipeline is run a second time against the same
\* source and the target the first run produced, and no call of either run
\* failed, the second run issues no create call for a site, rack, device,
\* interface, cable, VLAN group, VLAN, cluster, VM, prefix, address or tag.
C1_AsClaimed ==
    pl_faults = 0 =>
        \A i \in DOMAIN pl_calls :
            pl_calls[i].run = 2 => pl_calls[i].kind \notin EntityKinds

\* The interfaces of the device called device_name that carry interface_name.
InterfacesOf(device_name, interface_name) ==
    {i \in netbox.interfaces :
        /\ i.name = interface_name
        /\ \E d \in netbox.devices : d.name = device_name /\ d.id = i.device_id}

\* The Devices, Interfaces and Cables stages of the first run are over, no
\* call failed, and sw1 and sw2, whose ports eth0 the Link row connects,
\* were migrated as devices.
CableStagesOver ==
    /\ pl_run = 1
    /\ pl_pc = "ip_networks"
    /\ pl_IP = "4"
    /\ pl_faults = 0
    /\ {"sw1", "sw2"} \subseteq {d.name : d \in netbox.devices}

\* C3, as stated: with STORE_DATA = False and no snapshot file, once the
\* Devices, Interfaces and Cables stages of a run are over, there is exactly
\* one cable between the interfaces created for the two ports of the Link row.
C3_AsClaimed ==
    (~STORE_DATA /\ CableStagesOver) =>
        \E ia \in InterfacesOf("sw1", "Ethernet0"), ib \in InterfacesOf("sw2", "Ethernet0") :
            Cardinality({c \in netbox.cables : {c.a, c.b} = {ia.id, ib.id}}) = 1


(***************************************************************************)
(* Claims about run_extended_migration                                     *)
(***************************************************************************)

InColumns(col, cols) == \E j \in 1..Len(cols) : cols[j] = col

NamedLikeName(col) == Contains(lower(col), "name")

\* col is what the rule of C11 picks among cols: the first preferred candidate
\* present, else the first column whose name contains "name" (in any case),
\* else the first column, else nothing.
ChosenByRule(col, cols, preferred) ==
    LET anyPreferred == \E i \in 1..Len(preferred) : InColumns(preferred[i], cols)
        anyNamed == \E j \in 1..Len(cols) : NamedLikeName(cols[j])
    IN  \/ \E i \in 1..Len(preferred) :
              /\ col = preferred[i]
              /\ InColumns(col, cols)
              /\ \A k \in 1..(i - 1) : ~InColumns(preferred[k], cols)
        \/ /\ ~anyPreferred
           /\ \E j \in 1..Len(cols) :
                 /\ col = cols[j]
                 /\ NamedLikeName(col)
                 /\ \A k \in 1..(j - 1) : ~NamedLikeName(cols[k])
        \/ ~anyPreferred /\ ~anyNamed /\ cols # <<>> /\ col = cols[1]
        \/ cols = <<>> /\ col = None

\* C11: once the patch-cable stage has found its four tables, the name column
\* of PatchCableType and of PatchCableConnector is the first preferred
\* candidate present, else the first column whose name contains "name", else
\* the first column; the stage goes on to migrate unless one of the two
\* tables has no column at all.
C11_ColumnChoice ==
    (ext_log # <<>> /\ ext_log[1][2] # "skipped")
        => /\ ChosenByRule(type_name_col, columns["PatchCableType"], TypePreferred)
           /\ ChosenByRule(connector_name_col, columns["PatchCableConnector"],
                           ConnectorPreferred)
           /\ ext_log[1][2] = "migrated"
                 <=> /\ columns["PatchCableType"] # <<>>
                     /\ columns["PatchCableConnector"] # <<>>
           /\ ext_log[1][2] \in {"migrated", "no_column"}

\* PatchCableType has the columns id, name and no pctype_name: the stage ran
\* and reads the type name from name.
C11_Witness ==
    /\ ext_log # <<>>
    /\ ext_log[1] = <<"patch_cables", "migrated">>
    /\ columns["PatchCableType"] = <<"id", "name">>
    /\ type_name_col = "name"

\* The tables an extended stage reads first.
StageTables(stage) ==
    CASE stage = "patch_cables" -> required_tables
      [] stage = "files" -> {"File"}
      [] stage = "virtual_services" -> {"VS"}
      [] stage = "nat_mappings" -> {"IPv4NAT"}
      [] stage = "load_balancing" -> {"IPv4LB"}
      [] stage = "monitoring" -> {"CactiServer"}

\* C14, as the specification states it: an extended stage whose table is
\* absent is skipped without raising, and the stages after it still run (the
\* walk never ends in "raised", and a stage that ran follows every stage but
\* the last).
C14_AsClaimed ==
    /\ ext_pc # "raised"
    /\ \A k \in DOMAIN ext_log :
          /\ ext_log[k][1] = ExtStages[k]
          /\ StageTables(ext_log[k][1]) \ tables # {} => ext_log[k][2] = "skipped"


(***************************************************************************)
(* Claims about main                                                       *)
(***************************************************************************)

\* C13, as the specification states it: when --site names a site that is
\* neither in the target nor accepted by create_site, the process ends
\* without any stage having issued a create, and with a non-zero exit code.
C13_AsClaimed ==
    (/\ main_pc = "exited"
     /\ setup_ok
     /\ args.site # ""
     /\ args.site \notin main_sites
     /\ ~site_creatable)
        => main_calls = <<>> /\ exit_code # 0


(***************************************************************************)
(* Claims about the failure of create calls in run_base_migration          *)
(***************************************************************************)

\* C12, as the specification states it: a create call that fails while a
\* source record is processed is caught, and the stage goes on with the next
\* record; no stage is left by an exception.
C12_AsClaimed == pl_pc # "aborted"

\* The kinds of resource that are looked up by name and created on demand.
ResolverKinds ==
    {"tag", "device_role", "manufacturer", "device_type", "vlan_group",
     "cluster_type"}

\* C15, as the specification states it: within one run, no two create calls
\* are issued for the same name of a tag, device role, manufacturer, device
\* type, VLAN group or cluster type.
C15_AsClaimed ==
    \A i \in DOMAIN pl_calls : \A j \in DOMAIN pl_calls :
        (/\ i < j
         /\ pl_calls[i].run = pl_calls[j].run
         /\ pl_calls[i].kind \in ResolverKinds
         /\ pl_calls[i].kind = pl_calls[j].kind)
            => pl_calls[i].key # pl_calls[j].key


(***************************************************************************)
(* Claims about create_interfaces                                          *)
(***************************************************************************)

\* C16, as the specification states it: once connection_ids holds an
\* interface id for a port id, no step replaces it with another id.
C16_AsClaimed ==
    [][\A port_id \in PlPortIds :
          iface_connection_ids[port_id] # 0
              => iface_connection_ids'[port_id] = iface_connection_ids[port_id]]_vars

\* The interfaces of the target that carry the normalized name of the port
\* on the device of the tuple.
InterfacesNamedAfter(dev, port) ==
    {i \in iface_target.interfaces :
        i.device_id = dev[3] /\ i.name = change_interface_name(port.name, dev[4])}

\* C22, as the specification states it: after create_interfaces, when no
\* create call failed, connection_ids sends every named port of every
\* tracked device to the interface of the target that carries the port's
\* normalized name on that device.
C22_AsClaimed ==
    (iface_pc = "done" /\ iface_faults = 0)
        => \A k \in DOMAIN iface_tracked :
              \A p \in DOMAIN PortsOf(iface_tracked[k]) :
                 PortsOf(iface_tracked[k])[p].name # ""
                    => \E i \in InterfacesNamedAfter(iface_tracked[k],
                                                     PortsOf(iface_tracked[k])[p]) :
                          iface_connection_ids[PortsOf(iface_tracked[k])[p].id] = i.id


(***************************************************************************)
(* Claims about create_interface_connections                               *)
(***************************************************************************)

\* The create_interface_connection calls of the run in progress.
CableCalls ==
    {i \in DOMAIN pl_calls : pl_calls[i].run = pl_run /\ pl_calls[i].kind = "cable"}

\* C17, as the specification states it: when the Cables stage has run without
\* a connection_ids file, the mapping was rebuilt from the interfaces of the
\* target, so the cable of the Link row was requested between the interfaces
\* Ethernet0 of sw1 and of sw2 whenever the target holds both.
C17_AsClaimed ==
    (/\ pl_pc = "ip_networks"
     /\ pl_IP = "4"
     /\ ~files["connection_ids"].exists
     /\ InterfacesOf("sw1", "Ethernet0") # {}
     /\ InterfacesOf("sw2", "Ethernet0") # {})
        => \E i \in CableCalls :
              \E ia \in InterfacesOf("sw1", "Ethernet0"), ib \in InterfacesOf("sw2", "Ethernet0") :
                 pl_calls[i].key = CableKey(ia.id, ib.id)


\* The create_interface_connection calls a step has added to the history.
NewCableCalls ==
    {i \in DOMAIN pl_calls' :
        i \notin DOMAIN pl_calls /\ pl_calls'[i].kind = "cable"}

\* C18, as the specification states it: a cable create is issued only for
\* two resolved interfaces that no cable of the target connects yet, in
\* either direction.
C18_AsClaimed ==
    [][\A i \in NewCableCalls :
          \A c \in netbox.cables :
              pl_calls'[i].key \notin {CableKey(c.a, c.b), CableKey(c.b, c.a)}]_vars


(***************************************************************************)
(* Claims about create_non_racked_devices                                  *)
(***************************************************************************)

\* C19, as the specification states it: a child object whose parent device is
\* not in the target when the first pass reaches it is not created in that
\* pass and goes to the retry list.
C19_AsClaimed ==
    \A k \in DOMAIN child_log :
        (/\ child_log[k].pass = 1
         /\ child_log[k].is_child
         /\ ~child_log[k].parent_in_target)
            => ~child_log[k].created /\ child_log[k].failed

\* config.py:101-106: the object types listed under "Don't create these with
\* the unracked devices".
ExcludedObjtypeIds == {1504, 1505, 1560, 1561, 1562}

\* The object type of the source object with a name.
ObjtypeOfName(name) ==
    ChildObjects[CHOOSE i \in 1..Len(ChildObjects) : ChildObjects[i].name = name].objtype_id

\* C25, as the specification states it: no create_device call is issued for
\* a source object whose type is VM, VM Cluster, Rack, Row or Location.
C25_AsClaimed ==
    \A k \in DOMAIN child_log :
        (child_log[k].created \/ child_log[k].failed)
            => ObjtypeOfName(child_log[k].name) \notin ExcludedObjtypeIds

(***************************************************************************)
(* Claims about create_ip_ranges                                           *)
(***************************************************************************)

\* The create_ip_range calls of the create_ip_ranges call that has just
\* returned: the target holds what that call read.
RangesJustCreated ==
    {c \in rg_calls :
        /\ c.kind = "range"
        /\ c.ok
        /\ \/ rg_pc = "subnets" /\ c.run = rg_run - 1
           \/ rg_pc = "done" /\ c.run = rg_run}

\* The addresses of the range c that the network n covers.
RangeCovers(c, n) == n.v = c.v /\ n.ip <= c.end /\ c.start <= broadcast_address(n)

\* C21 as claimed: every IP range created by create_ip_ranges consists of
\* free address space only: it holds no IP address of the target and no
\* address covered by a child prefix of the prefix it was computed in.
C21_AsClaimed ==
    \A c \in RangesJustCreated :
        /\ \A a \in rg_addresses : ~(a.v = c.v /\ c.start <= a.ip /\ a.ip <= c.end)
        /\ \A n \in rg_prefixes : n # c.in /\ subnet_of(n, c.in) => ~RangeCovers(c, n)

(***************************************************************************)
(* Claims about the gap analysis, run after run                            *)
(***************************************************************************)

\* The create calls that stored a prefix or a range in an earlier run.
CreatedBefore(c) ==
    {d \in rg_calls : d.run < c.run /\ d.kind = c.kind /\ d.name = c.name /\ d.ok}

SourceRackOf(target_rack_id) ==
    (CHOOSE r \in rk_racks : r.id = target_rack_id).source_id

\* C23, as the specification states it: a device is placed in a rack of the
\* target only when RackSpace places its object in the source rack that
\* rack was migrated from.
C23_AsClaimed ==
    \A d \in rk_devices :
        \E atom \in RackSpace(rk_rows) :
            atom.object_id = d.object_id /\ atom.rack_id = SourceRackOf(d.rack)

(***************************************************************************)
(* Claims about create_vms                                                 *)
(***************************************************************************)

\* The cluster a source VM belongs in: the VM cluster that contains it, or
\* "Unmounted Cluster".
ClusterFor(vm) ==
    IF \E c \in DOMAIN SourceClusters : SourceClusters[c].id = vm_parent[vm.id]
    THEN (CHOOSE o \in {SourceClusters[c] : c \in DOMAIN SourceClusters} :
             o.id = vm_parent[vm.id]).name
    ELSE "Unmounted Cluster"

\* C24, as the specification states it: after create_vms with both flags
\* set and no failed create call, every named VM of the source is a VM of
\* the target, in the cluster that contains it or else in "Unmounted
\* Cluster".
C24_AsClaimed ==
    (vm_pc = "done" /\ vm_faults = 0)
        => \A k \in DOMAIN SourceVms :
              SourceVms[k].name # ""
                 => [name |-> SourceVms[k].name, cluster |-> ClusterFor(SourceVms[k])]
                        \in vm_machines

(***************************************************************************)
(* Claims about determine_prefix_status                                    *)
(***************************************************************************)

\* The keyword families that match the name or the comment, whatever the
\* case of the letters.
MatchingFamilies ==
    {f \in 1..Len(StatusFamilies) :
        \E term \in StatusFamilies[f].terms :
            Contains(lower(st_name), term) \/ Contains(lower(st_comment), term)}

\* The status of the first matching family in the precedence reserved,
\* deprecated, container, available, active.
FirstFamilyStatus ==
    StatusFamilies[CHOOSE f \in MatchingFamilies :
                      \A g \in MatchingFamilies : f <= g].status

\* C28, as the specification states it: with the four standard statuses
\* valid, the status is that of the first matching keyword family, and
\* active in every case where no family matches.
C28_AsClaimed ==
    (st_pc = "returned" /\ st_status # "" /\ st_valid = StandardStatuses)
        => st_status = IF MatchingFamilies # {} THEN FirstFamilyStatus ELSE "active"

\* C28: with the four standard statuses valid, a prefix whose name and
\* comment are both empty or blank gets reserved; any other prefix gets the
\* status of the first keyword family that matches its name or comment,
\* case-insensitively, in the precedence reserved, deprecated, container,
\* available (container), active, and active when no family matches.
C28_PrefixStatus ==
    (st_pc = "returned" /\ st_status # "" /\ st_valid = StandardStatuses)
        => st_status = IF IsBlank(st_name) /\ IsBlank(st_comment) THEN "reserved"
                       ELSE IF MatchingFamilies # {} THEN FirstFamilyStatus
                       ELSE "active"

\* The name "Free used", which holds a keyword of the available family and
\* one of the active family, with an empty comment gave container.
C28_Witness ==
    /\ st_pc = "returned"
    /\ st_valid = StandardStatuses
    /\ st_name = "Free used"
    /\ st_comment = ""
    /\ st_status = "container"

(***************************************************************************)
(* Claims about the order of the stages of run_base_migration              *)
(***************************************************************************)

\* The place of a function in the order sites, racks, devices, interfaces,
\* cables, IP data; 0 for a function that belongs to none of them.
StageRank(name) ==
    CASE name = "create_site" -> 1
      [] name = "create_rows_and_racks" -> 2
      [] name \in {"create_racked_devices", "create_non_racked_devices"} -> 3
      [] name = "create_interfaces" -> 4
      [] name = "create_interface_connections" -> 5
      [] name \in {"create_ip_networks", "create_ip_allocated",
                   "create_ip_not_allocated"} -> 6
      [] OTHER -> 0

\* The same with sites and racks as the one stage create_sites_and_racks.
CallRank(name) ==
    CASE name \in {"create_sites_and_racks", "create_site",
                   "create_rows_and_racks"} -> 2
      [] OTHER -> StageRank(name)

\* The entries a step may have added to the history at once.
LatestEvents == {k \in DOMAIN fl_trace : k > Len(fl_trace) - 4}

\* C30, as the specification states it: the enabled stages run in the order
\* sites, racks, devices, interfaces, cables, IP data, and no stage starts
\* before every enabled stage before it in that order has finished.
C30_AsClaimed ==
    \A k \in LatestEvents :
        StageRank(fl_trace[k].name) # 0
            => \A i \in 1..(k - 1) :
                   StageRank(fl_trace[i].name) <= StageRank(fl_trace[k].name)

\* The calls run_base_migration itself makes, as the history has them.
TopLevelCalls ==
    SelectSeq(fl_trace,
              LAMBDA e : e.name \notin {"create_site", "create_rows_and_racks"})

\* Whether the flags enable a stage function.
EnabledCall(name) ==
    CASE name = "create_global_tags" -> TRUE
      [] name = "create_vlan_groups" -> "CREATE_VLAN_GROUPS" \in fl_flags
      [] name = "create_vlans" -> "CREATE_VLANS" \in fl_flags
      [] name = "create_vms" ->
            "CREATE_MOUNTED_VMS" \in fl_flags \/ "CREATE_UNMOUNTED_VMS" \in fl_flags
      [] name \in {"create_sites_and_racks", "create_racked_devices"} ->
            "CREATE_RACKED_DEVICES" \in fl_flags
      [] name = "create_non_racked_devices" -> "CREATE_NON_RACKED_DEVICES" \in fl_flags
      [] name = "create_interfaces" -> "CREATE_INTERFACES" \in fl_flags
      [] name = "create_interface_connections" ->
            "CREATE_INTERFACE_CONNECTIONS" \in fl_flags
      [] name = "create_ip_networks" -> "CREATE_IP_NETWORKS" \in fl_flags
      [] name = "create_ip_allocated" -> "CREATE_IP_ALLOCATED" \in fl_flags
      [] name = "create_ip_not_allocated" -> "CREATE_IP_NOT_ALLOCATED" \in fl_flags
      [] OTHER -> FALSE

EnabledStages ==
    {name \in {"create_sites_and_racks", "create_racked_devices",
               "create_non_racked_devices", "create_interfaces",
               "create_interface_connections"} : EnabledCall(name)}
    \cup {name \in {"create_ip_networks", "create_ip_allocated",
                    "create_ip_not_allocated"} :
             /\ EnabledCall(name)
             /\ "CREATE_IPV4" \in fl_flags \/ "CREATE_IPV6" \in fl_flags}

\* C30: under every combination of the stage flags run_base_migration calls
\* the enabled stage functions one after the other, each returning before
\* the next is called, in the order sites and racks, devices (racked, then
\* non-racked), interfaces, cables, IP data; a run that returns has called
\* every enabled one.  Sites and racks are one stage, which goes site by
\* site: the racks of a site follow the create of that site and may precede
\* the create of the next site.
C30_StageOrder ==
    /\ \A k \in LatestEvents :
          CallRank(fl_trace[k].name) # 0
              => \A i \in 1..(k - 1) :
                     CallRank(fl_trace[i].name) <= CallRank(fl_trace[k].name)
    /\ LET top == TopLevelCalls
       IN /\ \A i \in DOMAIN top :
                /\ EnabledCall(top[i].name)
                /\ top[i].ev = IF i % 2 = 1 THEN "start" ELSE "end"
                /\ i % 2 = 0 => /\ top[i].name = top[i - 1].name
                                /\ top[i].arg = top[i - 1].arg
          /\ fl_pc = "done"
                => EnabledStages \subseteq {top[i].name : i \in DOMAIN top}
    /\ LET creates == {i \in DOMAIN fl_trace : fl_trace[i].name = "create_site"}
           racks == {i \in DOMAIN fl_trace : fl_trace[i].name = "create_rows_and_racks"}
       IN \A i \in creates : \A j \in racks :
             fl_trace[i].arg = fl_trace[j].arg => i < j

\* A run with every flag set has returned; both sites were created, the
\* second after the racks of the first, and the IP stages ran for both
\* versions after the cables.
C30_Witness ==
    /\ fl_pc = "done"
    /\ fl_flags = StageFlags
    /\ \E i, j, k \in DOMAIN fl_trace :
          /\ i < j /\ j < k
          /\ fl_trace[i] = FlagEvent("create_rows_and_racks", "DC1", "end")
          /\ fl_trace[j] = FlagEvent("create_site", "DC2", "start")
          /\ fl_trace[k] = FlagEvent("create_rows_and_racks", "DC2", "start")
    /\ \E i, j \in DOMAIN fl_trace :
          /\ i < j
          /\ fl_trace[i] = FlagEvent("create_interface_connections", "", "end")
          /\ fl_trace[j] = FlagEvent("create_ip_networks", "4", "start")
    /\ fl_trace[Len(fl_trace)] = FlagEvent("create_ip_not_allocated", "6", "end")

=============================================================================
